---- MODULE Spec2Model ----
(***************************************************************************)
(* A model of flcheck's dependency validation: the package-type policy and *)
(* its allowed-include closure (pubspec.rs, config.rs), the dependency     *)
(* variants and their override (dependency.rs), path resolution (util.rs), *)
(* the per-package checks (pubspec.rs) and the validate command (main.rs). *)
(*                                                                         *)
(* Strings are sequences of letters.  A letter is written as a short TLA+  *)
(* string ("app_", "foo", "/", "."), so that starts_with, path splitting   *)
(* and path joining are computed on the sequence, as the code computes     *)
(* them on the characters.  Names that the code only compares for equality *)
(* (package-type names, dependency names) are plain TLA+ strings.          *)
(***************************************************************************)
EXTENDS Integers, Sequences, FiniteSets, TLC

VARIABLES
    config,      \* the loaded Config (package_types, blacklist, validations, public_repositories)
    packages,    \* Vec<Pubspec>: the package collection of the run
    idx,         \* position of main.rs validate's outer loop over pubspecs
    findings,    \* every PackageValidation the loop has produced so far, in order
    num_errors,  \* main.rs validate's counter
    result,      \* "running", "ok", "failed", or "overflow" (stack exhausted)
    yaml,        \* the configuration document handed to Config::load_from_yaml
    query,       \* the package-type name valid_include_prefixes was last called for
    closure,     \* the value that call returned
    walk,        \* the calls of cyclic_dependency in progress and the findings collected
    manifest,    \* the manifest file handed to Pubspec::load
    overriding,  \* a dependency, an override for it, and what with_override and effective returned
    resolving    \* a package, a dependency of it, and what resolve_dependency returned

vars == <<config, packages, idx, findings, num_errors, result, yaml, query, closure, walk, manifest, overriding, resolving>>

None == "none"

\* no call of cyclic_dependency in progress, no finding collected
NoWalk == [stack |-> <<>>, out |-> <<>>]

\* ---------------------------------------------------------------- bounds

\* Nested calls the stack holds; a deeper nest exhausts it (the process aborts).
MaxCallDepth == 6

\* ---------------------------------------------------------------- strings

\* str::starts_with
StartsWith(s, prefix) ==
    /\ Len(prefix) <= Len(s)
    /\ SubSeq(s, 1, Len(prefix)) = prefix

\* Vec::contains / slice::contains
SeqContains(seq, x) == \E i \in 1..Len(seq) : seq[i] = x

Range(seq) == {seq[i] : i \in 1..Len(seq)}

\* a literal pattern matches when it occurs anywhere in the text (Regex::is_match
\* of a pattern without metacharacters)
IsMatch(pattern, text) ==
    \E i \in 0..(Len(text) - Len(pattern)) :
        SubSeq(text, i + 1, i + Len(pattern)) = pattern

\* ---------------------------------------------------------------- policy

\* matches_prefix with the operands of starts_with exchanged
matches_prefix_swapped(pkg_type, dir_name) ==
    \E i \in 1..Len(pkg_type.prefixes) : StartsWith(pkg_type.prefixes[i], dir_name)

\* PackageType::matches_prefix
matches_prefix(pkg_type, dir_name) ==
    \E i \in 1..Len(pkg_type.prefixes) : StartsWith(dir_name, pkg_type.prefixes[i])

\* The value of a call: the prefixes it returns, or overflow when the nest of
\* calls exceeded the stack.
Returned(prefixes) == [overflow |-> FALSE, prefixes |-> prefixes]
Overflowed == [overflow |-> TRUE, prefixes |-> <<>>]

\* the loop `for iprefix in valid_include_prefixes(pkg, config)` of
\* valid_include_prefixes: push the prefixes not yet accumulated
RECURSIVE PushMissing(_, _, _)
PushMissing(prefixes, inner, k) ==
    IF k > Len(inner) THEN prefixes
    ELSE PushMissing(IF SeqContains(prefixes, inner[k]) THEN prefixes
                     ELSE Append(prefixes, inner[k]),
                     inner, k + 1)

\* the prefix loop without the call for the included type: only the prefixes of
\* the types listed in includes are collected
RECURSIVE IncludePrefixLoopDirectOnly(_, _, _, _, _, _)
IncludePrefixLoopDirectOnly(pkg_type, cfg, pkg, j, prefixes, depth) ==
    IF j > Len(pkg.prefixes) THEN Returned(prefixes)
    ELSE IncludePrefixLoopDirectOnly(pkg_type, cfg, pkg, j + 1,
             IF SeqContains(prefixes, pkg.prefixes[j]) THEN prefixes
             ELSE Append(prefixes, pkg.prefixes[j]), depth)

RECURSIVE valid_include_prefixes(_, _, _)
RECURSIVE IncludePrefixLoop(_, _, _, _, _, _)
RECURSIVE IncludeTypeLoop(_, _, _, _, _)

\* the loop `for prefix in pkg.prefixes.iter()`, from its j-th element on
IncludePrefixLoop(pkg_type, cfg, pkg, j, prefixes, depth) ==
    IF j > Len(pkg.prefixes) THEN Returned(prefixes)
    ELSE IF SeqContains(prefixes, pkg.prefixes[j])
    THEN IncludePrefixLoop(pkg_type, cfg, pkg, j + 1, prefixes, depth)
    ELSE LET pushed == Append(prefixes, pkg.prefixes[j]) IN
         IF pkg.name # pkg_type.name
         THEN LET inner == valid_include_prefixes(pkg, cfg, depth - 1) IN
              IF inner.overflow THEN Overflowed
              ELSE IncludePrefixLoop(pkg_type, cfg, pkg, j + 1,
                                     PushMissing(pushed, inner.prefixes, 1), depth)
         ELSE IncludePrefixLoop(pkg_type, cfg, pkg, j + 1, pushed, depth)

\* the loop `config.package_types.iter().for_each`, from its i-th element on
IncludeTypeLoop(pkg_type, cfg, i, prefixes, depth) ==
    IF i > Len(cfg.package_types) THEN Returned(prefixes)
    ELSE LET pkg == cfg.package_types[i] IN
         IF SeqContains(pkg_type.includes, pkg.name)
         THEN LET r == IncludePrefixLoop(pkg_type, cfg, pkg, 1, prefixes, depth) IN
              IF r.overflow THEN Overflowed
              ELSE IncludeTypeLoop(pkg_type, cfg, i + 1, r.prefixes, depth)
         ELSE IncludeTypeLoop(pkg_type, cfg, i + 1, prefixes, depth)

\* valid_include_prefixes starting from the type's own prefixes
valid_include_prefixes_with_own(pkg_type, cfg, depth) ==
    IF depth = 0 THEN Overflowed
    ELSE IncludeTypeLoop(pkg_type, cfg, 1, pkg_type.prefixes, depth)

\* valid_include_prefixes(pkg_type, config); depth is the stack that is left
valid_include_prefixes(pkg_type, cfg, depth) ==
    IF depth = 0 THEN Overflowed
    ELSE IncludeTypeLoop(pkg_type, cfg, 1, <<>>, depth)

\* ---------------------------------------------------------------- paths

Slash == "/"
Dot == "."

\* the letters between the separators of a path, empty pieces included
RECURSIVE SplitPath(_, _, _)
SplitPath(s, i, cur) ==
    IF i > Len(s) THEN <<cur>>
    ELSE IF s[i] = Slash THEN <<cur>> \o SplitPath(s, i + 1, <<>>)
    ELSE SplitPath(s, i + 1, Append(cur, s[i]))

\* Path::components on a Unix path: RootDir for a leading separator, CurDir only
\* for a leading "." of a relative path, ParentDir for "..", Normal otherwise;
\* empty pieces and inner "." pieces are not components
RECURSIVE PieceComponents(_, _, _)
PieceComponents(pieces, i, rooted) ==
    IF i > Len(pieces) THEN <<>>
    ELSE LET piece == pieces[i]
             rest == PieceComponents(pieces, i + 1, rooted)
         IN  IF piece = <<>> THEN rest
             ELSE IF piece = <<Dot>>
                  THEN IF i = 1 /\ ~rooted
                       THEN <<[kind |-> "CurDir", seg |-> piece]>> \o rest
                       ELSE rest
             ELSE IF piece = <<Dot, Dot>>
                  THEN <<[kind |-> "ParentDir", seg |-> piece]>> \o rest
             ELSE <<[kind |-> "Normal", seg |-> piece]>> \o rest

Components(path) ==
    IF path = <<>> THEN <<>>
    ELSE LET rooted == path[1] = Slash
             pieces == SplitPath(path, 1, <<>>)
         IN  (IF rooted THEN <<[kind |-> "RootDir", seg |-> <<Slash>>]>> ELSE <<>>)
             \o PieceComponents(pieces, 1, rooted)

\* PathBuf as what it holds: whether it is rooted, and its segments
EmptyPathBuf == [rooted |-> FALSE, segs |-> <<>>]

\* a pop that drops nothing
PathPopNothing(buf) == buf

\* PathBuf::pop: drops the last segment; nothing to drop at the root or when empty
PathPop(buf) ==
    IF buf.segs = <<>> THEN buf
    ELSE [buf EXCEPT !.segs = SubSeq(buf.segs, 1, Len(buf.segs) - 1)]

RECURSIVE JoinStr(_, _)
JoinStr(strs, sep) ==
    IF strs = <<>> THEN <<>>
    ELSE IF Len(strs) = 1 THEN strs[1]
    ELSE strs[1] \o sep \o JoinStr(Tail(strs), sep)

\* PathBuf::to_str
PathToStr(buf) ==
    (IF buf.rooted THEN <<Slash>> ELSE <<>>) \o JoinStr(buf.segs, <<Slash>>)

\* the loop `for component in components` of normalize_path
RECURSIVE NormalizeLoop(_, _, _)
NormalizeLoop(comps, i, ret) ==
    IF i > Len(comps) THEN ret
    ELSE LET c == comps[i] IN
         NormalizeLoop(comps, i + 1,
            CASE c.kind = "RootDir"   -> [rooted |-> TRUE, segs |-> <<>>]
              [] c.kind = "CurDir"    -> ret
              [] c.kind = "ParentDir" -> PathPop(ret)
              [] c.kind = "Normal"    -> [ret EXCEPT !.segs = Append(ret.segs, c.seg)])

\* util::normalize_path
normalize_path(path) == NormalizeLoop(Components(path), 1, EmptyPathBuf)

\* util::normalize_path_str
normalize_path_str(path_str) == normalize_path(path_str)

\* pubspec::file_name: the last component when it is a normal one (an Option,
\* as a sequence of at most one element)
file_name(path) ==
    LET comps == Components(path) IN
    IF comps # <<>> /\ comps[Len(comps)].kind = "Normal"
    THEN <<comps[Len(comps)].seg>>
    ELSE <<>>

\* ---------------------------------------------------------------- dependencies

\* Dependency::Local / Git / PubDev; `overridden` is the Option, a sequence of
\* at most one dependency; the fields a variant does not have are empty
Local(name, path) ==
    [kind |-> "Local", name |-> name, path |-> path, git |-> <<>>,
     version |-> <<>>, overridden |-> <<>>]
Git(name, git, path) ==
    [kind |-> "Git", name |-> name, path |-> path, git |-> git,
     version |-> <<>>, overridden |-> <<>>]
PubDev(name, version) ==
    [kind |-> "PubDev", name |-> name, path |-> <<>>, git |-> <<>>,
     version |-> version, overridden |-> <<>>]

\* Dependency::with_override
with_override(self, override_dependency) ==
    CASE self.kind = "Local" ->
            [kind |-> "Local", name |-> self.name, path |-> self.path, git |-> <<>>,
             version |-> <<>>, overridden |-> <<override_dependency>>]
      [] self.kind = "Git" ->
            [kind |-> "Git", name |-> self.name, path |-> self.path, git |-> self.git,
             version |-> <<>>, overridden |-> <<override_dependency>>]
      [] self.kind = "PubDev" ->
            [kind |-> "PubDev", name |-> self.name, path |-> <<>>, git |-> <<>>,
             version |-> self.version, overridden |-> <<override_dependency>>]

\* effective following the overrides to the last one
RECURSIVE effective_through_chain(_)
effective_through_chain(self) ==
    IF self.overridden # <<>> THEN effective_through_chain(self.overridden[1]) ELSE self

\* Dependency::effective
effective(self) ==
    IF self.overridden # <<>> THEN self.overridden[1] ELSE self

\* is_pubdev matching the wrong variant
is_pubdev_as_git(self) == self.kind = "Git"

\* is_git asking the effective dependency
is_git_of_effective(self) == effective(self).kind = "Git"

\* Dependency::is_local, is_git, is_pubdev
is_local(self) == self.kind = "Local"
is_git(self) == self.kind = "Git"
is_pubdev(self) == self.kind = "PubDev"

\* ---------------------------------------------------------------- config

ValidationTypes ==
    {"GitDevDependency", "UnknownDependency", "DependencyNotAllowed",
     "CyclicDependency", "NonGitDependencyInPublicPackage"}

ValidationLevels == {"error", "warn", "none"}

\* Config::is_empty: no package type is configured
is_empty(cfg) == cfg.package_types = <<>>

\* Config::is_valid
is_valid(cfg) == cfg.package_types # <<>>

\* Config::is_blacklisted
is_blacklisted(cfg, full_path) ==
    \E i \in 1..Len(cfg.blacklist) : IsMatch(cfg.blacklist[i], full_path)

\* Config::is_public_repo
is_public_repo(cfg, git_repo) ==
    \E i \in 1..Len(cfg.public_repositories) :
        IsMatch(cfg.public_repositories[i], git_repo)

\* the default level whatever the table holds
validation_level_always_error(cfg, validation_type) == "error"

\* Config::validation_level: the level of the first entry for the type, Error
\* when there is none
validation_level(cfg, validation_type) ==
    LET hits == {i \in 1..Len(cfg.validations) : cfg.validations[i][1] = validation_type}
    IN  IF hits = {} THEN "error"
        ELSE cfg.validations[CHOOSE i \in hits : \A j \in hits : i <= j][2]

\* every git dependency taken as public, whatever its repository
is_public_any_git(self, cfg) == self.kind = "Git"

\* Dependency::is_public
is_public(self, cfg) ==
    IF self.kind = "Git" THEN is_public_repo(cfg, self.git) ELSE FALSE

\* ---------------------------------------------------------------- order of strings

\* the letters in the order of their first bytes
Alphabet ==
    <<" ", "'", ".", "/", "app_", "bar", "baz", "foo", "git:", "github", "intern",
      "main_", "missing", "pkg_", "pubspec.yaml", "shared_", "sub", "tmp">>

LetterRank(l) == CHOOSE i \in 1..Len(Alphabet) : Alphabet[i] = l

\* Ord for String: lexicographic
RECURSIVE StrLess(_, _)
StrLess(a, b) ==
    IF b = <<>> THEN FALSE
    ELSE IF a = <<>> THEN TRUE
    ELSE IF a[1] = b[1] THEN StrLess(Tail(a), Tail(b))
    ELSE LetterRank(a[1]) < LetterRank(b[1])

\* insertion of one string into a sorted sequence
RECURSIVE InsertSorted(_, _)
InsertSorted(sorted, x) ==
    IF sorted = <<>> THEN <<x>>
    ELSE IF StrLess(x, sorted[1]) THEN <<x>> \o sorted
    ELSE <<sorted[1]>> \o InsertSorted(Tail(sorted), x)

\* slice::sort_unstable
RECURSIVE SortStrs(_)
SortStrs(strs) ==
    IF strs = <<>> THEN <<>>
    ELSE InsertSorted(SortStrs(Tail(strs)), strs[1])

\* a dedup that keeps every element
DedupNothing(strs) == strs

\* Vec::dedup: drops an element equal to the one before it
RECURSIVE Dedup(_)
Dedup(strs) ==
    IF Len(strs) <= 1 THEN strs
    ELSE IF strs[1] = strs[2] THEN Dedup(Tail(strs))
    ELSE <<strs[1]>> \o Dedup(Tail(strs))

Quoted(s) == <<"'">> \o s \o <<"'">>

\* ---------------------------------------------------------------- packages

\* Pubspec::validation
validation(self, cfg, error, code, description) ==
    [package_name |-> self.name,
     description  |-> description,
     error        |-> error,
     code         |-> code,
     level        |-> validation_level(cfg, code)]

\* Iterator::find over the packages: the first one at the directory path
FindByDirPath(pkgs, full_str) ==
    LET hits == {i \in 1..Len(pkgs) : pkgs[i].dir_path = full_str}
    IN  IF hits = {} THEN <<>>
        ELSE <<pkgs[CHOOSE i \in hits : \A j \in hits : i <= j]>>

\* Pubspec::resolve_dependency (an Option, as a sequence of at most one package)
resolve_dependency(self, dep, pkgs) ==
    LET eff == effective(dep) IN
    IF eff.kind = "Local"
    THEN LET full_path == self.dir_path \o <<Slash>> \o eff.path
             normalized == normalize_path_str(full_path)
             full_str == PathToStr(normalized)
         IN  FindByDirPath(pkgs, full_str)
    ELSE <<>>

\* Iterator::position (0 when there is none)
Position(seq, x) ==
    LET hits == {i \in 1..Len(seq) : seq[i] = x}
    IN  IF hits = {} THEN 0 ELSE CHOOSE i \in hits : \A j \in hits : i <= j

\* route.drain(idx..).flat_map(|path| file_name(&path)).collect()
RECURSIVE FileNames(_)
FileNames(paths) ==
    IF paths = <<>> THEN <<>>
    ELSE file_name(paths[1]) \o FileNames(Tail(paths))

RECURSIVE cyclic_dependency(_, _, _, _, _)
RECURSIVE CyclicInnerLoop(_, _, _, _, _, _)

\* the loop `for inner_dep in all_dependencies` of cyclic_dependency: the first
\* finding of an inner dependency is returned
CyclicInnerLoop(self, cfg, all_dependencies, pkgs, dep_path, k) ==
    IF k > Len(all_dependencies) THEN <<>>
    ELSE LET cyclic == cyclic_dependency(self, cfg, all_dependencies[k], pkgs, dep_path)
         IN  IF cyclic # <<>> THEN cyclic
             ELSE CyclicInnerLoop(self, cfg, all_dependencies, pkgs, dep_path, k + 1)

\* cyclic_dependency reporting every package met again on the path, the
\* origin or not
cyclic_dependency_any_back_edge(self, cfg, dep, pkgs, seen) ==
    LET resolved == resolve_dependency(self, dep, pkgs) IN
    IF resolved = <<>> THEN <<>>
    ELSE LET rev_dep == resolved[1]
             at == Position(seen, rev_dep.dir_path)
         IN  IF at # 0
             THEN LET prepared == Append(FileNames(SubSeq(seen, at, Len(seen))),
                                         Quoted(rev_dep.dir_name))
                  IN  <<validation(self, cfg,
                                   <<"cyclic dependency ">> \o JoinStr(prepared, <<" -> ">>),
                                   "CyclicDependency", <<>>)>>
             ELSE CyclicInnerLoop(self, cfg,
                                  rev_dep.dependencies \o rev_dep.dev_dependencies,
                                  pkgs, Append(seen, rev_dep.dir_path), 1)

\* Pubspec::cyclic_dependency (an Option, as a sequence of at most one finding)
cyclic_dependency(self, cfg, dep, pkgs, seen) ==
    LET resolved == resolve_dependency(self, dep, pkgs) IN
    IF resolved = <<>> THEN <<>>
    ELSE LET rev_dep == resolved[1]
             at == Position(seen, rev_dep.dir_path)
         IN  IF at # 0
             THEN IF self.dir_path # rev_dep.dir_path THEN <<>>
                  ELSE LET prepared == Append(FileNames(SubSeq(seen, at, Len(seen))),
                                              Quoted(rev_dep.dir_name))
                       IN  <<validation(self, cfg,
                                        <<"cyclic dependency ">> \o JoinStr(prepared, <<" -> ">>),
                                        "CyclicDependency", <<>>)>>
             ELSE CyclicInnerLoop(self, cfg,
                                  rev_dep.dependencies \o rev_dep.dev_dependencies,
                                  pkgs, Append(seen, rev_dep.dir_path), 1)

\* the dev-dependency check leaving out a finding whose level is none
git_packages_in_dev_dependencies_unless_none(self, cfg, dep) ==
    IF is_public(dep, cfg) /\ validation_level(cfg, "GitDevDependency") # "none"
    THEN <<validation(self, cfg, <<"git dependency in dev_dependencies ", dep.name>>,
                      "GitDevDependency", <<>>)>>
    ELSE <<>>

\* Pubspec::git_packages_in_dev_dependencies
git_packages_in_dev_dependencies(self, cfg, dep) ==
    IF is_public(dep, cfg)
    THEN <<validation(self, cfg, <<"git dependency in dev_dependencies ", dep.name>>,
                      "GitDevDependency", <<>>)>>
    ELSE <<>>

\* the public-package check asking the effective dependency
public_package_effective_dependencies_only(self, cfg, dep) ==
    IF ~self.is_public \/ ~is_local(effective(dep)) THEN <<>>
    ELSE <<validation(self, cfg, <<"non-git dependency '", dep.name, "' in public package">>,
                      "NonGitDependencyInPublicPackage", <<>>)>>

\* Pubspec::public_package_git_dependencies_only
public_package_git_dependencies_only(self, cfg, dep) ==
    IF ~self.is_public \/ ~is_local(dep) THEN <<>>
    ELSE <<validation(self, cfg, <<"non-git dependency '", dep.name, "' in public package">>,
                      "NonGitDependencyInPublicPackage", <<>>)>>

\* the flat_map of allowed_dependency: the closures of the package types that
\* match the directory name, one after the other, from the i-th type on
RECURSIVE ValidPrefixes(_, _, _)

\* the closure of the first package type that matches alone
ValidPrefixesFirstMatch(self, cfg, i) ==
    IF i > Len(cfg.package_types) THEN Returned(<<>>)
    ELSE IF matches_prefix(cfg.package_types[i], self.dir_name)
         THEN valid_include_prefixes(cfg.package_types[i], cfg, MaxCallDepth)
         ELSE ValidPrefixes(self, cfg, i + 1)

ValidPrefixes(self, cfg, i) ==
    IF i > Len(cfg.package_types) THEN Returned(<<>>)
    ELSE LET pkg_type == cfg.package_types[i] IN
         IF matches_prefix(pkg_type, self.dir_name)
         THEN LET first == valid_include_prefixes(pkg_type, cfg, MaxCallDepth)
                  rest == ValidPrefixes(self, cfg, i + 1)
              IN  IF first.overflow \/ rest.overflow THEN Overflowed
                  ELSE Returned(first.prefixes \o rest.prefixes)
         ELSE ValidPrefixes(self, cfg, i + 1)

RECURSIVE QuoteAll(_)
QuoteAll(strs) ==
    IF strs = <<>> THEN <<>> ELSE <<Quoted(strs[1])>> \o QuoteAll(Tail(strs))

\* Pubspec::allowed_dependency: [overflow, out], out the Option as a sequence
allowed_dependency(self, dep, cfg, pkgs) ==
    IF is_empty(cfg) THEN [overflow |-> FALSE, out |-> <<>>]
    ELSE IF is_pubdev(dep) THEN [overflow |-> FALSE, out |-> <<>>]
    ELSE IF is_git(dep) THEN [overflow |-> FALSE, out |-> <<>>]
    ELSE LET valid == ValidPrefixes(self, cfg, 1) IN
         IF valid.overflow THEN [overflow |-> TRUE, out |-> <<>>]
         ELSE LET valid_prefixes == valid.prefixes
                  resolved == resolve_dependency(self, dep, pkgs)
              IN  IF resolved = <<>>
                  THEN [overflow |-> FALSE,
                        out |-> <<validation(self, cfg,
                                    <<"unable to find dependency '", dep.name, "'">>,
                                    "UnknownDependency", <<>>)>>]
                  ELSE LET dep_pubspec == resolved[1]
                           non_valid == ~\E i \in 1..Len(valid_prefixes) :
                                            StartsWith(dep_pubspec.dir_name, valid_prefixes[i])
                           valid_packages == Dedup(SortStrs(QuoteAll(valid_prefixes)))
                       IN  IF non_valid
                           THEN [overflow |-> FALSE,
                                 out |-> <<validation(self, cfg,
                                    <<"dependency to '", dep.name, "' is not allowed">>,
                                    "DependencyNotAllowed",
                                    <<(<<"packages with the following directory prefixes are allowed only: ">>
                                       \o JoinStr(valid_packages, <<", ">>))>>)>>]
                           ELSE [overflow |-> FALSE, out |-> <<>>]

\* the flat_map over self.dependencies of validate, from the k-th dependency on:
\* the allowed-dependency finding, then the public-package finding
RECURSIVE DependencyValidations(_, _, _, _)
DependencyValidations(self, cfg, pkgs, k) ==
    IF k > Len(self.dependencies) THEN [overflow |-> FALSE, findings |-> <<>>]
    ELSE LET dep == self.dependencies[k]
             allowed == allowed_dependency(self, dep, cfg, pkgs)
             rest == DependencyValidations(self, cfg, pkgs, k + 1)
         IN  IF allowed.overflow \/ rest.overflow
             THEN [overflow |-> TRUE, findings |-> <<>>]
             ELSE [overflow |-> FALSE,
                   findings |-> allowed.out
                                \o public_package_git_dependencies_only(self, cfg, dep)
                                \o rest.findings]

\* the flat_map over all_dependencies of validate
RECURSIVE AllDependencyValidations(_, _, _, _, _)
AllDependencyValidations(self, cfg, pkgs, all_dependencies, k) ==
    IF k > Len(all_dependencies) THEN <<>>
    ELSE cyclic_dependency(self, cfg, all_dependencies[k], pkgs, <<self.dir_path>>)
         \o AllDependencyValidations(self, cfg, pkgs, all_dependencies, k + 1)

\* the flat_map over self.dev_dependencies of validate
RECURSIVE DevDependencyValidations(_, _, _)
DevDependencyValidations(self, cfg, k) ==
    IF k > Len(self.dev_dependencies) THEN <<>>
    ELSE git_packages_in_dev_dependencies(self, cfg, self.dev_dependencies[k])
         \o DevDependencyValidations(self, cfg, k + 1)

\* validate without the blacklist check
validate_ignoring_blacklist(self, cfg, pkgs) ==
    LET dependency_validations == DependencyValidations(self, cfg, pkgs, 1) IN
    IF dependency_validations.overflow
    THEN [overflow |-> TRUE, findings |-> <<>>]
    ELSE [overflow |-> FALSE,
          findings |-> dependency_validations.findings
                       \o AllDependencyValidations(self, cfg, pkgs,
                              self.dependencies \o self.dev_dependencies, 1)
                       \o DevDependencyValidations(self, cfg, 1)]

\* validate running the checks of the normal dependencies on the dev
\* dependencies as well
validate_checking_dev_dependencies(self, cfg, pkgs) ==
    IF is_blacklisted(cfg, self.path) THEN [overflow |-> FALSE, findings |-> <<>>]
    ELSE LET every == [self EXCEPT !.dependencies = self.dependencies \o self.dev_dependencies]
             dependency_validations == DependencyValidations(every, cfg, pkgs, 1)
         IN  IF dependency_validations.overflow
             THEN [overflow |-> TRUE, findings |-> <<>>]
             ELSE [overflow |-> FALSE,
                   findings |-> dependency_validations.findings
                                \o AllDependencyValidations(self, cfg, pkgs,
                                       self.dependencies \o self.dev_dependencies, 1)
                                \o DevDependencyValidations(self, cfg, 1)]

\* validate chaining the cycle findings in front of the findings of the normal
\* dependencies
validate_cycles_first(self, cfg, pkgs) ==
    IF is_blacklisted(cfg, self.path) THEN [overflow |-> FALSE, findings |-> <<>>]
    ELSE LET dependency_validations == DependencyValidations(self, cfg, pkgs, 1) IN
         IF dependency_validations.overflow
         THEN [overflow |-> TRUE, findings |-> <<>>]
         ELSE [overflow |-> FALSE,
               findings |-> AllDependencyValidations(self, cfg, pkgs,
                                self.dependencies \o self.dev_dependencies, 1)
                            \o dependency_validations.findings
                            \o DevDependencyValidations(self, cfg, 1)]

\* Pubspec::validate: [overflow, findings]
validate(self, cfg, pkgs) ==
    IF is_blacklisted(cfg, self.path) THEN [overflow |-> FALSE, findings |-> <<>>]
    ELSE LET dependency_validations == DependencyValidations(self, cfg, pkgs, 1)
             all_dependency_validations ==
                 AllDependencyValidations(self, cfg, pkgs,
                     self.dependencies \o self.dev_dependencies, 1)
             dev_dependency_validations == DevDependencyValidations(self, cfg, 1)
         IN  IF dependency_validations.overflow
             THEN [overflow |-> TRUE, findings |-> <<>>]
             ELSE [overflow |-> FALSE,
                   findings |-> dependency_validations.findings
                                \o all_dependency_validations
                                \o dev_dependency_validations]

\* pubspec::pubspec_dir: (dir_name, dir_path) of a manifest path, an Option.  The
\* parent is the path without its last component; manifest paths hold no empty
\* and no inner "." piece, so the parent's text is its components joined.
pubspec_dir(path) ==
    LET comps == Components(path)
        parent == SubSeq(comps, 1, Len(comps) - 1)
        rooted == parent # <<>> /\ parent[1].kind = "RootDir"
        segs == [i \in 1..(Len(parent) - (IF rooted THEN 1 ELSE 0)) |->
                    parent[i + (IF rooted THEN 1 ELSE 0)].seg]
    IN  IF comps = <<>> \/ comps[Len(comps)].kind = "RootDir" THEN <<>>
        ELSE IF parent = <<>> \/ parent[Len(parent)].kind # "Normal" THEN <<>>
        ELSE <<[dir_name |-> parent[Len(parent)].seg,
                dir_path |-> PathToStr([rooted |-> rooted, segs |-> segs])]>>

\* the Pubspec that Pubspec::load builds for a manifest at `path`
Pubspec(name, path, dependencies, dev_dependencies, is_public_package) ==
    LET dir == pubspec_dir(path)[1] IN
    [name |-> name, path |-> path,
     dir_name |-> dir.dir_name, dir_path |-> dir.dir_path,
     dependencies |-> dependencies, dev_dependencies |-> dev_dependencies,
     is_public |-> is_public_package]

\* ---------------------------------------------------------------- inputs

\* the policies of the runs: base_config of pubspec.rs's tests, a single type
\* that includes nothing, the same including itself, no type at all, and two
\* types that include each other, and two types with a common prefix
PackageType(name, prefixes, includes) ==
    [name |-> name, prefixes |-> prefixes, includes |-> includes]

base_config ==
    <<PackageType("app", <<(<<"app_">>)>>, <<"shared">>),
      PackageType("shared", <<(<<"shared_">>)>>, <<"shared", "package">>),
      PackageType("package", <<(<<"pkg_">>)>>, <<"package">>)>>

AppOnlyPolicy == <<PackageType("app", <<(<<"app_">>)>>, <<>>)>>

AppSelfPolicy == <<PackageType("app", <<(<<"app_">>)>>, <<"app">>)>>

MutualPolicy ==
    <<PackageType("app", <<(<<"app_">>)>>, <<"package">>),
      PackageType("package", <<(<<"pkg_">>)>>, <<"app">>)>>

\* two types that both match the directory app_foo
OverlapPolicy ==
    <<PackageType("app", <<(<<"app_">>)>>, <<"app">>),
      PackageType("main", <<(<<"app_", "foo">>)>>, <<"package">>),
      PackageType("package", <<(<<"pkg_">>)>>, <<>>)>>

\* two types that both match the directory app_foo and include the same types
SharedIncludesPolicy ==
    <<PackageType("app", <<(<<"app_">>)>>, <<"shared", "package">>),
      PackageType("main", <<(<<"app_", "foo">>)>>, <<"package", "shared">>),
      PackageType("shared", <<(<<"shared_">>)>>, <<>>),
      PackageType("package", <<(<<"pkg_">>)>>, <<>>)>>

Policies == {base_config, AppOnlyPolicy, AppSelfPolicy, <<>>, MutualPolicy, OverlapPolicy}

\* Config::from_packages
from_packages(package_types) ==
    [package_types |-> package_types, blacklist |-> <<>>,
     validations |-> <<>>, public_repositories |-> <<>>]

\* the tables of the validations section
ValidationTables ==
    {<<>>,
     <<(<<"UnknownDependency", "none">>), (<<"DependencyNotAllowed", "warn">>)>>,
     <<(<<"UnknownDependency", "none">>), (<<"DependencyNotAllowed", "none">>),
       (<<"CyclicDependency", "warn">>), (<<"GitDevDependency", "none">>),
       (<<"NonGitDependencyInPublicPackage", "warn">>)>>,
     <<(<<"CyclicDependency", "error">>), (<<"UnknownDependency", "warn">>)>>}

Tmp == <<"/", "tmp">>
AppFoo == Tmp \o <<"/", "app_", "foo">>
AppBar == Tmp \o <<"/", "app_", "bar">>
PkgFoo == Tmp \o <<"/", "pkg_", "foo">>
PkgBar == Tmp \o <<"/", "pkg_", "bar">>
SubPkgBaz == Tmp \o <<"/", "sub", "/", "pkg_", "baz">>

Manifest(dir) == dir \o <<"/", "pubspec.yaml">>

Up == <<".", ".">>

\* the relative paths from a directory under /tmp to its siblings
ToAppBar == Up \o <<"/", "app_", "bar">>
ToPkgBar == Up \o <<"/", "pkg_", "bar">>

\* the relative paths a manifest under /tmp/<dir> declares
ForwardPaths ==
    {Up \o <<"/", "app_", "bar">>, Up \o <<"/", "pkg_", "bar">>,
     Up \o <<"/", "sub", "/", "pkg_", "baz">>, Up \o <<"/", "missing">>}

\* the relative path from the directory `from` to the package directory /tmp/<name>
BackPath(from, name) ==
    IF from = SubPkgBaz THEN Up \o <<"/">> \o Up \o <<"/">> \o name
    ELSE Up \o <<"/">> \o name

GitHubUrl == <<"git:", "github">>
InternUrl == <<"git:", "intern">>

\* the dependencies a manifest declares under the name "bar", without override
DeclaredDeps ==
    {Local("bar", Up \o <<"/", "pkg_", "bar">>), Local("bar", Up \o <<"/", "missing">>),
     Git("bar", GitHubUrl, <<"sub">>), Git("bar", InternUrl, <<"sub">>),
     PubDev("bar", <<"1.0">>)}

\* the entries of dependency_overrides for that name
OverrideDeps ==
    {Local("bar", Up \o <<"/", "pkg_", "bar">>), Local("bar", Up \o <<"/", "missing">>),
     Git("bar", InternUrl, <<"sub">>),
     PubDev("bar", <<"2.0">>)}

\* get_dependencies: a declared dependency, with the override of its name if any
NormalDeps == DeclaredDeps \cup {with_override(d, o) : d \in DeclaredDeps, o \in OverrideDeps}

\* the dependencies of the second package: none, or one (normal or dev) on the
\* first package, or one with the path ../<name>, which from a directory one
\* level deeper names a directory that holds no package
BackDeps(from, name) ==
    LET deps == {Local("foo", BackPath(from, name)), Local("foo", Up \o <<"/">> \o name)} IN
    {<<(<<>>), (<<>>)>>} \cup {<<(<<dep>>), (<<>>)>> : dep \in deps}
                        \cup {<<(<<>>), (<<dep>>)>> : dep \in deps}

\* two packages under /tmp with any policy: the first declares one local
\* dependency (normal or dev), the second none or one back on the first
InitLayout ==
    \E policy \in Policies, first \in {AppFoo, PkgFoo}, second \in {AppBar, PkgBar, SubPkgBaz},
       path \in ForwardPaths, dev \in BOOLEAN :
      \E back \in BackDeps(second, SubSeq(first, 4, 5)) :
        /\ config = from_packages(policy)
        /\ packages =
             <<Pubspec("foo", Manifest(first),
                       IF dev THEN <<>> ELSE <<Local("bar", path)>>,
                       IF dev THEN <<Local("bar", path)>> ELSE <<>>, FALSE),
               Pubspec("bar", Manifest(second), back[1], back[2], FALSE)>>

\* /tmp/app_foo and /tmp/pkg_bar with every variant of dependency and override,
\* public or not, with and without blacklist and levels
InitVariants ==
    \E policy \in {base_config, <<>>}, dev \in BOOLEAN, public \in BOOLEAN,
       blacklist \in {<<>>, <<(<<"/", "app_", "foo">>)>>, <<(<<"/", "pkg_", "bar">>)>>},
       validations \in ValidationTables :
      \E dep \in (IF dev THEN DeclaredDeps ELSE NormalDeps),
         back \in {b \in BackDeps(PkgBar, <<"app_", "foo">>) : b[2] = <<>>} :
        /\ config = [package_types |-> policy, blacklist |-> blacklist,
                     validations |-> validations,
                     public_repositories |-> <<(<<"github">>)>>]
        /\ packages =
             <<Pubspec("foo", Manifest(AppFoo),
                       IF dev THEN <<>> ELSE <<dep>>,
                       IF dev THEN <<dep>> ELSE <<>>, public),
               Pubspec("bar", Manifest(PkgBar), back[1], back[2], FALSE)>>

\* ---------------------------------------------------------------- the validate command

Init ==
    /\ InitLayout \/ InitVariants
    /\ idx = 1
    /\ findings = <<>>
    /\ num_errors = 0
    /\ result = "running"
    /\ yaml = None
    /\ query = None
    /\ closure = Returned(<<>>)
    /\ walk = NoWalk
    /\ manifest = None
    /\ overriding = None
    /\ resolving = None

\* one round of the loop `for pubspec in pubspecs.iter()` of main.rs validate:
\* the package is validated and every finding counted; a nest of calls deeper
\* than the stack ends the process
ValidateNext ==
    /\ result = "running"
    /\ idx <= Len(packages)
    /\ LET vals == validate(packages[idx], config, packages) IN
       IF vals.overflow
       THEN /\ result' = "overflow"
            /\ UNCHANGED <<idx, findings, num_errors>>
       ELSE /\ findings' = Append(findings, vals.findings)
            /\ num_errors' = num_errors + Len(vals.findings)
            /\ idx' = idx + 1
            /\ UNCHANGED result
    /\ UNCHANGED <<config, packages, yaml, query, closure, walk, manifest, overriding, resolving>>

\* the end of main.rs validate: Err(ValidationError(num_errors)) or Ok(())
ValidateDone ==
    /\ result = "running"
    /\ idx > Len(packages)
    /\ result' = IF num_errors > 0 THEN "failed" ELSE "ok"
    /\ UNCHANGED <<config, packages, idx, findings, num_errors, yaml, query, closure, walk, manifest, overriding, resolving>>

Next == ValidateNext \/ ValidateDone

Spec == Init /\ [][Next]_vars

\* ---------------------------------------------------------------- dependency graphs

\* three packages: two siblings under /tmp and a third, a sibling or one level
\* deeper
GraphNames == <<"foo", "bar", "baz">>

GraphDirs(third) == <<AppFoo, AppBar, third>>

\* how a package depends on another one: not at all, in dependencies, or in
\* dev_dependencies
EdgeKinds == {"none", "normal", "dev"}

\* the local dependencies of the given kind that the package at dirs[i] declares,
\* in the order of their targets
GraphDeps(dirs, i, kinds, kind) ==
    LET targets == SelectSeq(<<1, 2, 3>>, LAMBDA j : kinds[j] = kind)
    IN  [k \in 1..Len(targets) |->
            Local(GraphNames[targets[k]],
                  BackPath(dirs[i], SubSeq(dirs[targets[k]], 4, Len(dirs[targets[k]]))))]

\* the edges a package may declare: the first package alone may depend on
\* itself, and that in dependencies
EdgeChoices(i) ==
    {kinds \in [1..3 -> EdgeKinds] :
        kinds[i] = "none" \/ (i = 1 /\ kinds[i] = "normal")}

\* the package at dirs[i] with the chosen edges; `missing` puts a dependency
\* onto no package in front of its dependencies
GraphPackage(dirs, i, kinds, missing) ==
    Pubspec(GraphNames[i], Manifest(dirs[i]),
            (IF missing THEN <<Local("missing", Up \o <<"/", "missing">>)>> ELSE <<>>)
                \o GraphDeps(dirs, i, kinds, "normal"),
            GraphDeps(dirs, i, kinds, "dev"), FALSE)

\* every dependency graph over the three packages
GraphPackages ==
    {<<GraphPackage(GraphDirs(third), 1, k1, FALSE),
       GraphPackage(GraphDirs(third), 2, k2, missing),
       GraphPackage(GraphDirs(third), 3, k3, FALSE)>> :
        third \in {PkgBar, SubPkgBaz}, missing \in BOOLEAN,
        k1 \in EdgeChoices(1), k2 \in EdgeChoices(2), k3 \in EdgeChoices(3)}

InitGraph ==
    /\ packages \in GraphPackages
    /\ \E blacklist \in {<<>>, <<(<<"/", "app_", "bar">>)>>} :
         config = [package_types |-> <<>>, blacklist |-> blacklist,
                   validations |-> <<>>, public_repositories |-> <<>>]
    /\ idx = 1
    /\ findings = <<>>
    /\ num_errors = 0
    /\ result = "running"
    /\ yaml = None
    /\ query = None
    /\ closure = Returned(<<>>)
    /\ walk = NoWalk
    /\ manifest = None
    /\ overriding = None
    /\ resolving = None

\* the validate command over the dependency graphs
SpecGraph == InitGraph /\ [][Next]_vars

\* ---------------------------------------------------------------- several dependencies per package

\* the local dependencies the first package chooses from: on /tmp/pkg_bar, on
\* /tmp/app_bar and on a directory that holds no package
OrderLocals ==
    {Local("bar", ToPkgBar), Local("baz", ToAppBar), Local("qux", Up \o <<"/", "missing">>)}

\* a dependency on a public repository
OrderGit == Git("pub", GitHubUrl, <<"sub">>)

\* /tmp/app_foo with two normal dependencies in either order and dev
\* dependencies on the third target and on a public repository; /tmp/pkg_bar
\* and /tmp/app_bar may depend back on it
InitOrder ==
    /\ \E policy \in {base_config, AppOnlyPolicy, SharedIncludesPolicy}, public \in BOOLEAN,
          a \in OrderLocals, b \in OrderLocals, c \in OrderLocals,
          back_bar \in BOOLEAN, back_baz \in BOOLEAN :
         \E dev \in {<<>>, <<c>>, <<OrderGit>>, <<c, OrderGit>>, <<OrderGit, c>>} :
           /\ a # b /\ a # c /\ b # c
           /\ config = [package_types |-> policy, blacklist |-> <<>>,
                        validations |-> <<>>,
                        public_repositories |-> <<(<<"github">>)>>]
           /\ packages =
                <<Pubspec("foo", Manifest(AppFoo), <<a, b>>, dev, public),
                  Pubspec("bar", Manifest(PkgBar),
                          IF back_bar THEN <<Local("foo", BackPath(PkgBar, <<"app_", "foo">>))>>
                          ELSE <<>>, <<>>, FALSE),
                  Pubspec("baz", Manifest(AppBar),
                          IF back_baz THEN <<Local("foo", BackPath(AppBar, <<"app_", "foo">>))>>
                          ELSE <<>>, <<>>, FALSE)>>
    /\ idx = 1
    /\ findings = <<>>
    /\ num_errors = 0
    /\ result = "running"
    /\ yaml = None
    /\ query = None
    /\ closure = Returned(<<>>)
    /\ walk = NoWalk
    /\ manifest = None
    /\ overriding = None
    /\ resolving = None

\* the validate command over these packages
SpecOrder == InitOrder /\ [][Next]_vars

\* ---------------------------------------------------------------- the cycle walk, call by call

\* The walk of validate's all_dependency_validations, one call of
\* cyclic_dependency per step.  A frame of walk.stack is a loop over
\* dependencies in progress: the dependencies, the position of the next one,
\* and the seen vector handed to the call for each of them.  The lowest frame is
\* the flat_map over the dependencies of the validated package, the others are
\* the loops `for inner_dep in all_dependencies` of the calls in progress.
Frame(deps, seen) == [deps |-> deps, k |-> 1, seen |-> seen]

\* what one call cyclic_dependency(dep, seen) does before it loops: nothing to
\* report ("none"), the cycle back to the package itself ("report"), or the
\* loop over the dependencies of the resolved package ("descend")
WalkOutcomeOriginOnly(self, dep, pkgs, seen) ==
    LET resolved == resolve_dependency(self, dep, pkgs) IN
    IF resolved = <<>> THEN [kind |-> "none", rev_dep |-> <<>>]
    ELSE IF resolved[1].dir_path = seen[1] THEN [kind |-> "report", rev_dep |-> resolved]
    ELSE [kind |-> "descend", rev_dep |-> resolved]

WalkOutcome(self, dep, pkgs, seen) ==
    LET resolved == resolve_dependency(self, dep, pkgs) IN
    IF resolved = <<>> THEN [kind |-> "none", rev_dep |-> <<>>]
    ELSE IF Position(seen, resolved[1].dir_path) # 0
         THEN IF self.dir_path # resolved[1].dir_path
              THEN [kind |-> "none", rev_dep |-> resolved]
              ELSE [kind |-> "report", rev_dep |-> resolved]
         ELSE [kind |-> "descend", rev_dep |-> resolved]

\* the finding of the call that met the package itself again
WalkFinding(self, cfg, seen, rev_dep) ==
    LET at == Position(seen, rev_dep.dir_path)
        prepared == Append(FileNames(SubSeq(seen, at, Len(seen))), Quoted(rev_dep.dir_name))
    IN  validation(self, cfg, <<"cyclic dependency ">> \o JoinStr(prepared, <<" -> ">>),
                   "CyclicDependency", <<>>)

TopFrame == walk.stack[Len(walk.stack)]

\* the call for the next dependency of the top frame
TopCall ==
    WalkOutcome(packages[idx], TopFrame.deps[TopFrame.k], packages, TopFrame.seen)

\* the stack with the loop of frame n moved on to its next dependency, the
\* frames above it gone
Advance(stack, n) == [SubSeq(stack, 1, n) EXCEPT ![n].k = @ + 1]

InitWalk ==
    /\ config = from_packages(<<>>)
    /\ packages = <<>>
    /\ idx = 1
    /\ findings = <<>>
    /\ num_errors = 0
    /\ result = "running"
    /\ yaml = None
    /\ query = None
    /\ closure = Returned(<<>>)
    /\ walk = NoWalk
    /\ manifest = None
    /\ overriding = None
    /\ resolving = None

\* the packages are loaded, and the loop of main.rs validate comes to one of
\* them
WalkLoad ==
    /\ result = "running" /\ packages = <<>>
    /\ \E third \in {PkgBar, SubPkgBaz}, missing \in BOOLEAN,
          k1 \in EdgeChoices(1), k2 \in EdgeChoices(2), k3 \in EdgeChoices(3) :
         packages' = <<GraphPackage(GraphDirs(third), 1, k1, FALSE),
                       GraphPackage(GraphDirs(third), 2, k2, missing),
                       GraphPackage(GraphDirs(third), 3, k3, FALSE)>>
    /\ idx' \in 1..3
    /\ UNCHANGED <<config, findings, num_errors, result, yaml, query, closure, walk, manifest, overriding, resolving>>

\* validate begins the flat_map over all_dependencies, each call with
\* vec![self.dir_path.clone()]
WalkStart ==
    /\ result = "running" /\ packages # <<>> /\ walk.stack = <<>>
    /\ walk' = [walk EXCEPT !.stack =
          <<Frame(packages[idx].dependencies \o packages[idx].dev_dependencies,
                  <<packages[idx].dir_path>>)>>]
    /\ UNCHANGED <<config, packages, idx, findings, num_errors, result, yaml, query, closure, manifest, overriding, resolving>>

\* a call that returns None at once: the dependency resolves to no package, or
\* to a package on the seen path that is not the validated one
WalkSkip ==
    /\ walk.stack # <<>> /\ TopFrame.k <= Len(TopFrame.deps)
    /\ TopCall.kind = "none"
    /\ walk' = [walk EXCEPT !.stack = Advance(walk.stack, Len(walk.stack))]
    /\ UNCHANGED <<config, packages, idx, findings, num_errors, result, yaml, query, closure, manifest, overriding, resolving>>

\* a call that meets the validated package again: its finding is returned
\* through every loop in progress and collected by the flat_map
WalkReport ==
    /\ walk.stack # <<>> /\ TopFrame.k <= Len(TopFrame.deps)
    /\ TopCall.kind = "report"
    /\ walk' = [stack |-> Advance(walk.stack, 1),
                out |-> Append(walk.out,
                               WalkFinding(packages[idx], config, TopFrame.seen, TopCall.rev_dep[1]))]
    /\ UNCHANGED <<config, packages, idx, findings, num_errors, result, yaml, query, closure, manifest, overriding, resolving>>

\* a call that resolves to a package not yet seen: it loops over the
\* dependencies of that package with the seen path extended by its directory
WalkDescend ==
    /\ walk.stack # <<>> /\ TopFrame.k <= Len(TopFrame.deps)
    /\ TopCall.kind = "descend"
    /\ LET rev_dep == TopCall.rev_dep[1] IN
       walk' = [walk EXCEPT !.stack =
          Append(walk.stack, Frame(rev_dep.dependencies \o rev_dep.dev_dependencies,
                                   Append(TopFrame.seen, rev_dep.dir_path)))]
    /\ UNCHANGED <<config, packages, idx, findings, num_errors, result, yaml, query, closure, manifest, overriding, resolving>>

\* the loop of a call ends without finding: the call returns None to the loop
\* that made it
WalkReturn ==
    /\ Len(walk.stack) > 1 /\ TopFrame.k > Len(TopFrame.deps)
    /\ walk' = [walk EXCEPT !.stack = Advance(walk.stack, Len(walk.stack) - 1)]
    /\ UNCHANGED <<config, packages, idx, findings, num_errors, result, yaml, query, closure, manifest, overriding, resolving>>

\* the flat_map has gone through every dependency of the validated package
WalkDone ==
    /\ Len(walk.stack) = 1 /\ TopFrame.k > Len(TopFrame.deps)
    /\ walk' = [walk EXCEPT !.stack = <<>>]
    /\ result' = "walked"
    /\ UNCHANGED <<config, packages, idx, findings, num_errors, yaml, query, closure, manifest, overriding, resolving>>

NextWalk == WalkLoad \/ WalkStart \/ WalkSkip \/ WalkReport \/ WalkDescend \/ WalkReturn \/ WalkDone

SpecWalk == InitWalk /\ [][NextWalk]_vars

\* ---------------------------------------------------------------- loading a policy

\* A node of the configuration document: a string, a number, a list of nodes, or
\* bad (the key is missing or holds nothing).  The string of a key, of an
\* includes entry and of a validations entry is a name (field str); the string
\* of a dir_prefix entry or of a pattern is a sequence of letters (field text).
StrNode(str) == [tag |-> "str", str |-> str, text |-> <<>>, items |-> <<>>]
TextNode(text) == [tag |-> "str", str |-> "", text |-> text, items |-> <<>>]
IntNode == [tag |-> "int", str |-> "", text |-> <<>>, items |-> <<>>]
ListNode(items) == [tag |-> "list", str |-> "", text |-> <<>>, items |-> items]
BadNode == [tag |-> "bad", str |-> "", text |-> <<>>, items |-> <<>>]

\* util::yaml_str_list: the non-empty strings of a list, nothing for another
\* node; for a list of names
RECURSIVE StrItems(_)
StrItems(items) ==
    IF items = <<>> THEN <<>>
    ELSE IF items[1].tag = "str" /\ items[1].str # ""
         THEN <<items[1].str>> \o StrItems(Tail(items))
         ELSE StrItems(Tail(items))

yaml_str_list(node) ==
    IF node.tag = "list" THEN StrItems(node.items) ELSE <<>>

\* util::yaml_str_list for a list of strings of letters
RECURSIVE TextItems(_)
TextItems(items) ==
    IF items = <<>> THEN <<>>
    ELSE IF items[1].tag = "str" /\ items[1].text # <<>>
         THEN <<items[1].text>> \o TextItems(Tail(items))
         ELSE TextItems(Tail(items))

yaml_text_list(node) ==
    IF node.tag = "list" THEN TextItems(node.items) ELSE <<>>

\* the closure of the flat_map over config_yaml["package_types"]: the package
\* type of one entry, none for a key that is no string or is empty
PackageTypeOfEntry(entry) ==
    LET name == IF entry.key.tag = "str" THEN entry.key.str ELSE ""
        includes == yaml_str_list(entry.includes)
        prefix == IF entry.dir_prefix.tag = "str" THEN entry.dir_prefix.text ELSE <<>>
        prefixes == IF prefix = <<>> THEN yaml_text_list(entry.dir_prefix)
                    ELSE <<prefix>>
    IN  IF name = "" THEN <<>>
        ELSE <<[name |-> name, prefixes |-> prefixes, includes |-> includes]>>

RECURSIVE PackageTypesOf(_)
PackageTypesOf(entries) ==
    IF entries = <<>> THEN <<>>
    ELSE PackageTypeOfEntry(entries[1]) \o PackageTypesOf(Tail(entries))

\* ValidationType::from_str over ValidationType::as_str (an Option)
validation_type_from_str(input) ==
    CASE input = "validation:dev-dependency:git"       -> <<"GitDevDependency">>
      [] input = "validation:dependency:unknown"       -> <<"UnknownDependency">>
      [] input = "validation:dependency:unallowed"     -> <<"DependencyNotAllowed">>
      [] input = "validation:dependency:cyclic"        -> <<"CyclicDependency">>
      [] input = "validation:public:dependency:non-git" -> <<"NonGitDependencyInPublicPackage">>
      [] OTHER -> <<>>

\* ValidationLevel::from_str (an Option)
validation_level_from_str(input) ==
    IF input \in ValidationLevels THEN <<input>> ELSE <<>>

Ok(value) == [ok |-> TRUE, value |-> value, err |-> ""]
Err(err) == [ok |-> FALSE, value |-> <<>>, err |-> err]

\* the map over config_yaml["validations"], collected into a Result
RECURSIVE ValidationsOf(_)
ValidationsOf(entries) ==
    IF entries = <<>> THEN Ok(<<>>)
    ELSE LET type_str == IF entries[1].key.tag = "str" THEN entries[1].key.str ELSE ""
             level_str == IF entries[1].value.tag = "str" THEN entries[1].value.str ELSE ""
             vtype == validation_type_from_str(type_str)
             vlevel == validation_level_from_str(level_str)
             rest == ValidationsOf(Tail(entries))
         IN  IF vtype = <<>> THEN Err("InvalidValidationType")
             ELSE IF vlevel = <<>> THEN Err("InvalidValidationLevel")
             ELSE IF ~rest.ok THEN rest
             ELSE Ok(<<(<<vtype[1], vlevel[1]>>)>> \o rest.value)

\* Regex::new: a pattern of letters compiles unless it holds the repetition "**"
RegexCompiles(entry) == ~SeqContains(entry, "**")

\* config::regex_list
regex_list(strings) ==
    IF \A i \in 1..Len(strings) : RegexCompiles(strings[i])
    THEN Ok(strings) ELSE Err("ConfigValidation")

\* Config::package_exists
package_exists(cfg, package_name) ==
    \E i \in 1..Len(cfg.package_types) : cfg.package_types[i].name = package_name

\* Config::validate without the check of the prefixes
config_validate_includes_only(cfg) ==
    IF ~is_valid(cfg) THEN Err("ConfigValidation")
    ELSE IF \E i \in 1..Len(cfg.package_types) :
               \E k \in 1..Len(cfg.package_types[i].includes) :
                   ~package_exists(cfg, cfg.package_types[i].includes[k])
         THEN Err("ConfigValidation")
         ELSE Ok(cfg)

\* Config::validate
config_validate(cfg) ==
    IF ~is_valid(cfg) THEN Err("ConfigValidation")
    ELSE IF \E i \in 1..Len(cfg.package_types) :
               LET package == cfg.package_types[i] IN
               \/ \E k \in 1..Len(package.includes) : ~package_exists(cfg, package.includes[k])
               \/ package.prefixes = <<>>
         THEN Err("ConfigValidation")
         ELSE Ok(cfg)

\* Config::load_from_yaml
load_from_yaml(config_yaml) ==
    LET package_types == PackageTypesOf(config_yaml.package_types)
        validations == ValidationsOf(config_yaml.validations)
        public_repositories == regex_list(yaml_text_list(config_yaml.public_repositories))
        blacklist == regex_list(yaml_text_list(config_yaml.blacklist))
    IN  IF ~validations.ok THEN validations
        ELSE IF ~public_repositories.ok THEN public_repositories
        ELSE IF ~blacklist.ok THEN blacklist
        ELSE config_validate([package_types |-> package_types,
                              blacklist |-> blacklist.value,
                              validations |-> validations.value,
                              public_repositories |-> public_repositories.value])

\* the dir_prefix nodes of the documents
DirPrefixNodes(prefix) ==
    {BadNode, IntNode, TextNode(<<>>), TextNode(prefix), ListNode(<<>>),
     ListNode(<<TextNode(<<>>), IntNode>>),
     ListNode(<<TextNode(<<>>), TextNode(prefix), TextNode(<<"main_">>)>>)}

\* the includes nodes of the documents
IncludesNodes ==
    {BadNode, StrNode("app"), ListNode(<<StrNode("app")>>), ListNode(<<StrNode("pkg")>>),
     ListNode(<<StrNode("app"), StrNode("ghost")>>), ListNode(<<StrNode(""), IntNode>>)}

\* the package_types sections: nothing, the entry app alone, or app and a second
\* entry whose key is pkg, empty, or no string
PackageTypeSections ==
    LET first == {[key |-> StrNode("app"), dir_prefix |-> p, includes |-> i] :
                     p \in DirPrefixNodes(<<"app_">>), i \in IncludesNodes}
        second == {[key |-> k, dir_prefix |-> p, includes |-> i] :
                     k \in {StrNode("pkg"), StrNode(""), IntNode},
                     p \in {BadNode, TextNode(<<"pkg_">>)},
                     i \in {BadNode, ListNode(<<StrNode("pkg")>>),
                            ListNode(<<StrNode("ghost")>>)}}
    IN  {<<>>} \cup {<<e>> : e \in first} \cup {<<e, f>> : e \in first, f \in second}

ValidationSections ==
    {<<>>,
     <<[key |-> StrNode("validation:dependency:cyclic"), value |-> StrNode("warn")],
       [key |-> StrNode("validation:dependency:unknown"), value |-> StrNode("none")]>>,
     <<[key |-> StrNode("validation:dependency"), value |-> StrNode("warn")]>>,
     <<[key |-> StrNode("validation:dependency:cyclic"), value |-> StrNode("fatal")]>>}

PatternNodes ==
    {BadNode, ListNode(<<TextNode(<<"/", "example">>)>>), ListNode(<<TextNode(<<"**">>)>>)}

InitLoad ==
    /\ yaml \in [package_types : PackageTypeSections, validations : ValidationSections,
                 blacklist : PatternNodes, public_repositories : PatternNodes]
    /\ config = from_packages(<<>>)
    /\ packages = <<>>
    /\ idx = 1
    /\ findings = <<>>
    /\ num_errors = 0
    /\ result = "running"
    /\ query = None
    /\ closure = Returned(<<>>)
    /\ walk = NoWalk
    /\ manifest = None
    /\ overriding = None
    /\ resolving = None

\* `let config = Config::load(&opts.config_file)?` of main.rs run
LoadConfig ==
    /\ result = "running"
    /\ LET loaded == load_from_yaml(yaml) IN
       IF loaded.ok
       THEN /\ config' = loaded.value
            /\ result' = "loaded"
       ELSE /\ result' = loaded.err
            /\ UNCHANGED config
    /\ UNCHANGED <<packages, idx, findings, num_errors, yaml, query, closure, walk, manifest, overriding, resolving>>

NextLoad == LoadConfig

SpecLoad == InitLoad /\ [][NextLoad]_vars

\* ---------------------------------------------------------------- closure queries

TypeNames == <<"app", "shared", "package">>

\* the includes lists over the three names
IncludeChoices ==
    {<<>>, <<"app">>, <<"shared">>, <<"package">>, <<"app", "shared">>,
     <<"app", "package">>, <<"shared", "package">>, <<"app", "shared", "package">>}

\* the dir_prefix lists of each type: its own prefix, two prefixes, or a prefix
\* that another type declares too
PrefixChoices(name) ==
    CASE name = "app"     -> {<<(<<"app_">>)>>, <<(<<"app_">>), (<<"main_">>)>>}
      [] name = "shared"  -> {<<(<<"shared_">>)>>, <<(<<"app_">>)>>}
      [] name = "package" -> {<<(<<"pkg_">>)>>, <<(<<"shared_">>)>>}

\* every policy over the three types that Config::validate accepts
ClosurePolicies ==
    {<<PackageType("app", p1, i1), PackageType("shared", p2, i2),
       PackageType("package", p3, i3)>> :
        p1 \in PrefixChoices("app"), p2 \in PrefixChoices("shared"),
        p3 \in PrefixChoices("package"),
        i1 \in IncludeChoices, i2 \in IncludeChoices, i3 \in IncludeChoices}

\* the functions that reorder a sequence of n elements
Perms(n) == {f \in [1..n -> 1..n] : \A i, j \in 1..n : f[i] = f[j] => i = j}

Permuted(seq, f) == [i \in 1..Len(seq) |-> seq[f[i]]]

\* a policy of four types without any cycle: main includes app and shared,
\* which declare the same prefix, and shared includes package
SharedPrefixPolicy ==
    <<PackageType("main", <<(<<"main_">>)>>, <<"app", "shared">>),
      PackageType("app", <<(<<"app_">>)>>, <<>>),
      PackageType("shared", <<(<<"app_">>)>>, <<"package">>),
      PackageType("package", <<(<<"pkg_">>)>>, <<>>)>>

\* that policy with its types declared in every order
ReorderedPolicies == {Permuted(SharedPrefixPolicy, f) : f \in Perms(Len(SharedPrefixPolicy))}

InitClosure ==
    /\ config \in {from_packages(policy) : policy \in ClosurePolicies \cup ReorderedPolicies}
    /\ packages = <<>>
    /\ idx = 1
    /\ findings = <<>>
    /\ num_errors = 0
    /\ result = "running"
    /\ yaml = None
    /\ query = None
    /\ closure = Returned(<<>>)
    /\ walk = NoWalk
    /\ manifest = None
    /\ overriding = None
    /\ resolving = None

\* a call valid_include_prefixes(pkg_type, config) for a type of the policy
ComputeClosure ==
    /\ \E i \in 1..Len(config.package_types) :
         /\ query' = config.package_types[i].name
         /\ closure' = valid_include_prefixes(config.package_types[i], config, MaxCallDepth)
    /\ UNCHANGED <<config, packages, idx, findings, num_errors, result, yaml, walk, manifest, overriding, resolving>>

NextClosure == ComputeClosure

SpecClosure == InitClosure /\ [][NextClosure]_vars

\* ---------------------------------------------------------------- manifests

\* a boolean scalar of a document
BoolNode(b) == [tag |-> "bool", str |-> IF b THEN "true" ELSE "false", text |-> <<>>, items |-> <<>>]

\* the value of an entry of dependencies: a hash with the keys path and git (url,
\* path), each a string or absent (both read as ""); a string; a real number,
\* written whole.frac; an integer; null
ValHash(path, git_url, git_path) ==
    [tag |-> "hash", path |-> path, git_url |-> git_url, git_path |-> git_path,
     text |-> <<>>, whole |-> "", frac |-> ""]
ValStr(text) ==
    [tag |-> "str", path |-> <<>>, git_url |-> <<>>, git_path |-> <<>>,
     text |-> text, whole |-> "", frac |-> ""]
ValReal(whole, frac) ==
    [tag |-> "real", path |-> <<>>, git_url |-> <<>>, git_path |-> <<>>,
     text |-> <<>>, whole |-> whole, frac |-> frac]
ValInt ==
    [tag |-> "int", path |-> <<>>, git_url |-> <<>>, git_path |-> <<>>,
     text |-> <<>>, whole |-> "1", frac |-> ""]
ValNull ==
    [tag |-> "null", path |-> <<>>, git_url |-> <<>>, git_path |-> <<>>,
     text |-> <<>>, whole |-> "", frac |-> ""]

\* format!("{}", num) of an f64: a whole number is written without fraction
FormatReal(value) ==
    IF value.frac = "0" THEN <<value.whole>> ELSE <<value.whole, ".", value.frac>>

\* pubspec::extract_dependency (an Option, as a sequence of at most one)
extract_dependency(key, value) ==
    LET path == IF value.tag = "hash" THEN value.path ELSE <<>>
        git_url == IF value.tag = "hash" THEN value.git_url ELSE <<>>
        git_path == IF value.tag = "hash" THEN value.git_path ELSE <<>>
    IN  IF path # <<>> THEN <<Local(key, path)>>
        ELSE IF git_url # <<>> /\ git_path # <<>> THEN <<Git(key, git_url, git_path)>>
        ELSE IF value.tag = "str" THEN <<PubDev(key, value.text)>>
        ELSE IF value.tag = "real" THEN <<PubDev(key, FormatReal(value))>>
        ELSE <<>>

\* the hash of a section of the document, its entries in the order of the
\* document; a section that is no hash has no entry
HashEntries(node) == IF node.tag = "hash" THEN node.entries ELSE <<>>

HashNode(entries) == [tag |-> "hash", entries |-> entries]
NoHashNode == [tag |-> "bad", entries |-> <<>>]
ScalarSection == [tag |-> "str", entries |-> <<>>]

\* dependency_overrides[key]: the value of the entry for the key, BadValue
\* (which reads as null) when there is none
OverrideValue(dependency_overrides, key) ==
    LET hits == {i \in 1..Len(HashEntries(dependency_overrides)) :
                    HashEntries(dependency_overrides)[i].key = StrNode(key)}
    IN  IF hits = {} THEN ValNull
        ELSE HashEntries(dependency_overrides)[CHOOSE i \in hits : TRUE].value

\* key.as_str().unwrap_or("")
KeyStr(node) == IF node.tag = "str" THEN node.str ELSE ""

\* the loop of get_dependencies from the i-th entry on
RECURSIVE DependenciesLoop(_, _, _)
DependenciesLoop(entries, dependency_overrides, i) ==
    IF i > Len(entries) THEN <<>>
    ELSE LET key == KeyStr(entries[i].key)
             rest == DependenciesLoop(entries, dependency_overrides, i + 1)
         IN  IF key = "" THEN rest
             ELSE LET dep == extract_dependency(key, entries[i].value)
                      dep_override == extract_dependency(key, OverrideValue(dependency_overrides, key))
                  IN  IF dep = <<>> THEN rest
                      ELSE IF dep_override # <<>>
                           THEN <<with_override(dep[1], dep_override[1])>> \o rest
                           ELSE <<dep[1]>> \o rest

\* pubspec::get_dependencies
get_dependencies(doc) ==
    DependenciesLoop(HashEntries(doc.dependencies), doc.dependency_overrides, 1)

\* the loop of get_dev_dependencies from the i-th entry on
RECURSIVE DevDependenciesLoop(_, _)
DevDependenciesLoop(entries, i) ==
    IF i > Len(entries) THEN <<>>
    ELSE LET key == KeyStr(entries[i].key)
             rest == DevDependenciesLoop(entries, i + 1)
         IN  IF key = "" THEN rest
             ELSE extract_dependency(key, entries[i].value) \o rest

\* pubspec::get_dev_dependencies
get_dev_dependencies(doc) == DevDependenciesLoop(HashEntries(doc.dev_dependencies), 1)

\* pubspec::is_public_package: yaml["flcheck"]["is_public"].as_bool().unwrap_or(false)
is_public_package(doc) == doc.is_public.tag = "bool" /\ doc.is_public.str = "true"

\* what is found at the path of a manifest: nothing, a file that cannot be read
\* as text, text that is no YAML, text without any document, or a document
FileMissing == [state |-> "missing", doc |-> <<>>]
FileUnreadable == [state |-> "unreadable", doc |-> <<>>]
FileMalformed == [state |-> "malformed", doc |-> <<>>]
FileEmpty == [state |-> "empty", doc |-> <<>>]
FileWith(doc) == [state |-> "document", doc |-> <<doc>>]

\* util::load_yaml
load_yaml(file) ==
    IF file.state = "missing" THEN Err("NoConfigFound")
    ELSE IF file.state = "unreadable" THEN Err("FileReadError")
    ELSE IF file.state = "malformed" THEN Err("YamlReadError")
    ELSE IF file.state = "empty" THEN Err("NoConfigFound")
    ELSE Ok(file.doc[1])

\* load accepting whatever is at the path: a file without document reads as an
\* empty document
load_without_file_errors(path, file) ==
    LET doc == IF file.state = "document" THEN file.doc[1]
               ELSE [name |-> BadNode, dependencies |-> NoHashNode,
                     dev_dependencies |-> NoHashNode, dependency_overrides |-> NoHashNode,
                     is_public |-> BadNode]
    IN  IF pubspec_dir(path) = <<>> THEN Err("ConfigValidation")
        ELSE Ok(Pubspec(KeyStr(doc.name), path, get_dependencies(doc),
                        get_dev_dependencies(doc), is_public_package(doc)))

\* Pubspec::load
load(path, file) ==
    LET loaded == load_yaml(file) IN
    IF ~loaded.ok THEN Err(loaded.err)
    ELSE LET doc == loaded.value
             name == IF doc.name.tag = "str" THEN doc.name.str ELSE ""
         IN  IF pubspec_dir(path) = <<>> THEN Err("ConfigValidation")
             ELSE Ok(Pubspec(name, path, get_dependencies(doc),
                             get_dev_dependencies(doc), is_public_package(doc)))

\* the paths of the manifests: under an absolute or a relative directory, and
\* without a directory name in front
ManifestPaths ==
    {Manifest(AppFoo), <<"app_", "foo", "/", "pubspec.yaml">>, <<"pubspec.yaml">>,
     <<"/", "pubspec.yaml">>, Up \o <<"/", "pubspec.yaml">>}

\* the values of the entries of dependencies
DependencyValues ==
    {ValHash(path, git_url, git_path) :
        path \in {<<>>, ToPkgBar}, git_url \in {<<>>, GitHubUrl}, git_path \in {<<>>, <<"sub">>}}
    \cup {ValStr(<<"1.0">>), ValReal("2", "0"), ValReal("1", "5"), ValInt, ValNull}

\* the values of the entries of dependency_overrides and dev_dependencies
OtherValues ==
    {ValHash(ToAppBar, <<>>, <<>>), ValHash(<<>>, InternUrl, <<"sub">>), ValStr(<<"2.0">>), ValNull}

DependencyKeys == {StrNode("bar"), StrNode(""), IntNode}

\* the dependencies section: absent, a scalar, or a hash of one or two entries
DependencySections ==
    {NoHashNode, ScalarSection}
    \cup {HashNode(<<[key |-> k, value |-> v]>>) : k \in DependencyKeys, v \in DependencyValues}
    \cup {HashNode(<<[key |-> StrNode("baz"), value |-> ValStr(<<"1.0">>)],
                     [key |-> StrNode("bar"), value |-> v]>>) : v \in OtherValues}

OtherSections ==
    {NoHashNode} \cup {HashNode(<<[key |-> StrNode("bar"), value |-> v]>>) : v \in OtherValues}

ManifestDocuments ==
    [name : {StrNode("foo"), IntNode, BadNode},
     dependencies : DependencySections,
     dev_dependencies : OtherSections,
     dependency_overrides : OtherSections,
     is_public : {BoolNode(TRUE), BoolNode(FALSE), StrNode("true"), BadNode}]

ManifestFiles ==
    {FileMissing, FileUnreadable, FileMalformed, FileEmpty}
    \cup {FileWith(doc) : doc \in ManifestDocuments}

InitManifest ==
    /\ manifest \in [path : ManifestPaths, file : ManifestFiles]
    /\ overriding = None
    /\ resolving = None
    /\ config = from_packages(<<>>)
    /\ packages = <<>>
    /\ idx = 1
    /\ findings = <<>>
    /\ num_errors = 0
    /\ result = "running"
    /\ yaml = None
    /\ query = None
    /\ closure = Returned(<<>>)
    /\ walk = NoWalk

\* Pubspec::load(path) for a manifest that find_pubspecs has listed
LoadManifest ==
    /\ result = "running"
    /\ LET loaded == load(manifest.path, manifest.file) IN
       IF loaded.ok
       THEN /\ packages' = <<loaded.value>>
            /\ result' = "loaded"
       ELSE /\ result' = loaded.err
            /\ UNCHANGED packages
    /\ UNCHANGED <<config, idx, findings, num_errors, yaml, query, closure, walk, manifest, overriding, resolving>>

NextManifest == LoadManifest

SpecManifest == InitManifest /\ [][NextManifest]_vars

\* ---------------------------------------------------------------- overrides

\* dependencies of the three variants without override
PlainDeps ==
    {Local("bar", ToPkgBar), Git("bar", GitHubUrl, <<"sub">>), PubDev("bar", <<"1.0">>)}

\* the same under another name and with other fields, to tell an override from
\* the dependency it overrides
OtherDeps ==
    {Local("baz", ToAppBar), Git("baz", InternUrl, <<"lib">>), PubDev("baz", <<"2.0">>)}

\* dependencies without and with one override
OverriddenDeps ==
    PlainDeps \cup OtherDeps
    \cup {[d EXCEPT !.overridden = <<o>>] : d \in PlainDeps, o \in OtherDeps}
    \cup {[d EXCEPT !.overridden = <<o>>] : d \in OtherDeps, o \in PlainDeps}

InitOverride ==
    /\ \E d \in OverriddenDeps, o \in OverriddenDeps :
         overriding = [d |-> d, o |-> o, out |-> <<>>, of_d |-> <<>>, of_out |-> <<>>]
    /\ config = from_packages(<<>>)
    /\ packages = <<>>
    /\ idx = 1
    /\ findings = <<>>
    /\ num_errors = 0
    /\ result = "running"
    /\ yaml = None
    /\ query = None
    /\ closure = Returned(<<>>)
    /\ walk = NoWalk
    /\ manifest = None
    /\ resolving = None

\* d.with_override(o)
CallWithOverride ==
    /\ overriding.out = <<>>
    /\ overriding' = [overriding EXCEPT !.out = <<with_override(overriding.d, overriding.o)>>]
    /\ UNCHANGED <<config, packages, idx, findings, num_errors, result, yaml, query, closure,
                   walk, manifest, resolving>>

\* d.effective() and d.with_override(o).effective()
CallEffective ==
    /\ overriding.out # <<>>
    /\ overriding.of_out = <<>>
    /\ overriding' = [overriding EXCEPT !.of_d = <<effective(overriding.d)>>,
                                        !.of_out = <<effective(overriding.out[1])>>]
    /\ UNCHANGED <<config, packages, idx, findings, num_errors, result, yaml, query, closure,
                   walk, manifest, resolving>>

NextOverride == CallWithOverride \/ CallEffective

SpecOverride == InitOverride /\ [][NextOverride]_vars

\* ---------------------------------------------------------------- resolving a dependency

\* the packages of the resolutions: two manifests (pubspec.yaml, pubspec.yml) in
\* /tmp/pkg_bar, a package directly under the root, and two packages loaded
\* from relative manifest paths
ResolvePackages ==
    <<Pubspec("foo", Manifest(AppFoo), <<>>, <<>>, FALSE),
      Pubspec("bar", Manifest(PkgBar), <<>>, <<>>, FALSE),
      Pubspec("bar_yml", PkgBar \o <<"/", "pubspec.yml">>, <<>>, <<>>, FALSE),
      Pubspec("top", Manifest(<<"/", "pkg_", "bar">>), <<>>, <<>>, FALSE),
      Pubspec("rel_foo", Manifest(<<"app_", "foo">>), <<>>, <<>>, FALSE),
      Pubspec("rel_bar", Manifest(<<"pkg_", "bar">>), <<>>, <<>>, FALSE)>>

\* the segments of the relative paths, the empty one (two separators in a row)
\* included
PathSegments == {<<Dot>>, <<Dot, Dot>>, <<"pkg_", "bar">>, <<"app_", "foo">>, <<"tmp">>, <<>>}

\* the longest relative path, in segments
MaxSegments == 3

\* the relative paths: one to MaxSegments segments
RelativePaths ==
    UNION {{JoinStr(segs, <<Slash>>) : segs \in [1..n -> PathSegments]} : n \in 1..MaxSegments}

\* the dependencies to resolve: local ones, and a local one overridden by a git
\* dependency, and a git dependency overridden by a local one
ResolveDeps ==
    {Local("dep", path) : path \in RelativePaths \ {<<>>}}
    \cup {with_override(Local("dep", ToPkgBar), Git("dep", InternUrl, <<"sub">>)),
          with_override(Git("dep", InternUrl, <<"sub">>), Local("dep", ToPkgBar)),
          PubDev("dep", <<"1.0">>)}

InitResolve ==
    /\ packages = ResolvePackages
    /\ \E i \in {1, 4, 5}, dep \in ResolveDeps :
         resolving = [self |-> i, dep |-> dep, done |-> FALSE, normalized |-> <<>>,
                      out |-> <<>>, again |-> <<>>]
    /\ config = from_packages(<<>>)
    /\ idx = 1
    /\ findings = <<>>
    /\ num_errors = 0
    /\ result = "running"
    /\ yaml = None
    /\ query = None
    /\ closure = Returned(<<>>)
    /\ walk = NoWalk
    /\ manifest = None
    /\ overriding = None

\* self.resolve_dependency(dep, packages), with the normalized string it
\* compares (an Option: none for a dependency that is not local)
CallResolve ==
    /\ ~resolving.done
    /\ LET self == packages[resolving.self]
           eff == effective(resolving.dep)
       IN  resolving' =
             [resolving EXCEPT
                !.done = TRUE,
                !.out = resolve_dependency(self, resolving.dep, packages),
                !.normalized =
                    IF eff.kind = "Local"
                    THEN <<PathToStr(normalize_path_str(self.dir_path \o <<Slash>> \o eff.path))>>
                    ELSE <<>>]
    /\ UNCHANGED <<config, packages, idx, findings, num_errors, result, yaml, query, closure,
                   walk, manifest, overriding>>

\* normalize_path_str applied to the normalized string
CallNormalizeAgain ==
    /\ resolving.done
    /\ resolving.normalized # <<>>
    /\ resolving.again = <<>>
    /\ resolving' = [resolving EXCEPT
                        !.again = <<PathToStr(normalize_path_str(resolving.normalized[1]))>>]
    /\ UNCHANGED <<config, packages, idx, findings, num_errors, result, yaml, query, closure,
                   walk, manifest, overriding>>

NextResolve == CallResolve \/ CallNormalizeAgain

SpecResolve == InitResolve /\ [][NextResolve]_vars

\* ---------------------------------------------------------------- the includes graph

TypeOf(cfg, name) ==
    cfg.package_types[CHOOSE i \in 1..Len(cfg.package_types) :
                          cfg.package_types[i].name = name]

DeclaredNames(cfg) == {cfg.package_types[i].name : i \in 1..Len(cfg.package_types)}

\* the types a type lists in includes
Included(cfg, name) == Range(TypeOf(cfg, name).includes) \cap DeclaredNames(cfg)

\* the names reachable from a set of names by zero or more includes edges
RECURSIVE ReachFrom(_, _)
ReachFrom(cfg, names) ==
    LET more == names \cup UNION {Included(cfg, n) : n \in names}
    IN  IF more = names THEN names ELSE ReachFrom(cfg, more)

\* the names reachable by one or more includes edges
ReachPlus(cfg, name) == ReachFrom(cfg, Included(cfg, name))

PrefixesOf(cfg, names) == UNION {Range(TypeOf(cfg, n).prefixes) : n \in names}

\* no type reaches itself at all
Acyclic(cfg) == \A n \in DeclaredNames(cfg) : n \notin ReachPlus(cfg, n)

\* no cycle through two or more types; a type may include itself
NoLongCycle(cfg) ==
    \A n, m \in DeclaredNames(cfg) :
        n # m => ~(m \in ReachPlus(cfg, n) /\ n \in ReachPlus(cfg, m))

\* no prefix string is declared by two types
DistinctPrefixes(cfg) ==
    \A n, m \in DeclaredNames(cfg) :
        n # m => PrefixesOf(cfg, {n}) \cap PrefixesOf(cfg, {m}) = {}

\* ---------------------------------------------------------------- claims

C2_ClosureTerminates ==
    query # None => ~closure.overflow

\* ---------------------------------------------------------------- findings of a run

\* the packages the loop has validated
Validated == 1..Len(findings)

Blacklisted(i) == is_blacklisted(config, packages[i].path)

HasFinding(fs, code, error) ==
    \E k \in 1..Len(fs) : fs[k].code = code /\ fs[k].error = error

CountCode(fs, code) == Cardinality({k \in 1..Len(fs) : fs[k].code = code})

Codes(fs) == [k \in 1..Len(fs) |-> fs[k].code]

UnknownFor(dep) == <<"unable to find dependency '", dep.name, "'">>
NotAllowedFor(dep) == <<"dependency to '", dep.name, "' is not allowed">>

\* the run of two packages foo and bar under /tmp, foo declaring the one normal
\* dependency bar at `path`, bar declaring nothing
TwoPackageRun(policy, first, second, path) ==
    /\ config = from_packages(policy)
    /\ Len(packages) = 2
    /\ packages[1] = Pubspec("foo", Manifest(first), <<Local("bar", path)>>, <<>>, FALSE)
    /\ packages[2] = Pubspec("bar", Manifest(second), <<>>, <<>>, FALSE)


\* C3 as stated: with the single type app (prefix "app_", includes empty), foo in
\* /tmp/app_foo depending on bar at ../app_bar produces no finding.
C3_OwnTypeAlwaysAllowed ==
    (TwoPackageRun(AppOnlyPolicy, AppFoo, AppBar, ToAppBar) /\ 1 \in Validated) =>
        findings[1] = <<>>

\* C3 amended: in that run the dependency resolves onto bar and validating foo
\* produces exactly one finding, DependencyNotAllowed, since a type is in its own
\* allowed set only when its includes list names it; when app includes app the
\* same run produces no finding.
C3_OwnTypeAllowedOnlyIfIncluded ==
    /\ (TwoPackageRun(AppOnlyPolicy, AppFoo, AppBar, ToAppBar) /\ 1 \in Validated) =>
          /\ resolve_dependency(packages[1], packages[1].dependencies[1], packages)
                = <<packages[2]>>
          /\ Codes(findings[1]) = <<"DependencyNotAllowed">>
          /\ findings[1][1].error = NotAllowedFor(packages[1].dependencies[1])
    /\ (TwoPackageRun(AppSelfPolicy, AppFoo, AppBar, ToAppBar) /\ 1 \in Validated) =>
          findings[1] = <<>>

\* C3 witness: foo of the run with the single type app has been validated
C3_Witness ==
    /\ TwoPackageRun(AppOnlyPolicy, AppFoo, AppBar, ToAppBar)
    /\ 1 \in Validated
    /\ packages[2].dir_name = <<"app_", "bar">>
    /\ CountCode(findings[1], "DependencyNotAllowed") = 1

\* a prefix of a type reached through the includes lists of a type matching the
\* declaring package starts the target's directory name
AllowedByIncludes(self, target) ==
    \E n \in DeclaredNames(config) :
        /\ matches_prefix(TypeOf(config, n), self.dir_name)
        /\ \E prefix \in PrefixesOf(config, ReachPlus(config, n)) :
              StartsWith(target.dir_name, prefix)

\* C4: a resolved non-dev local dependency yields DependencyNotAllowed exactly
\* when no prefix reached through the includes lists of the types matching the
\* declaring package starts the target's directory name; under base_config
\* app_foo -> app_bar and pkg_foo -> app_bar yield it, app_foo -> pkg_bar does not.
C4_AllowedOnlyThroughIncludes ==
    /\ \A i \in Validated :
         (~Blacklisted(i) /\ ~is_empty(config)) =>
            \A k \in 1..Len(packages[i].dependencies) :
               LET dep == packages[i].dependencies[k]
                   resolved == resolve_dependency(packages[i], dep, packages)
               IN  (dep.kind = "Local" /\ resolved # <<>>) =>
                      /\ HasFinding(findings[i], "DependencyNotAllowed", NotAllowedFor(dep))
                            <=> ~AllowedByIncludes(packages[i], resolved[1])
                      /\ ~HasFinding(findings[i], "UnknownDependency", UnknownFor(dep))
    /\ (TwoPackageRun(base_config, AppFoo, AppBar, ToAppBar) /\ 1 \in Validated) =>
          Codes(findings[1]) = <<"DependencyNotAllowed">>
    /\ (TwoPackageRun(base_config, PkgFoo, AppBar, ToAppBar) /\ 1 \in Validated) =>
          Codes(findings[1]) = <<"DependencyNotAllowed">>
    /\ (TwoPackageRun(base_config, AppFoo, PkgBar, ToPkgBar) /\ 1 \in Validated) =>
          findings[1] = <<>>

\* C4 witness: pkg_foo -> app_bar under base_config has been validated and flagged
C4_Witness ==
    /\ TwoPackageRun(base_config, PkgFoo, AppBar, ToAppBar)
    /\ 1 \in Validated
    /\ HasFinding(findings[1], "DependencyNotAllowed", NotAllowedFor(packages[1].dependencies[1]))

\* the local dependencies a package declares, normal and dev
LocalDeps(pkg) ==
    LET all == pkg.dependencies \o pkg.dev_dependencies
    IN  {k \in 1..Len(all) : effective(all[k]).kind = "Local"}

\* two packages, each declaring exactly one local dependency, that resolves from
\* its own directory onto the other package
MutualPair ==
    /\ Len(packages) = 2
    /\ packages[1].dir_path # packages[2].dir_path
    /\ \A i \in {1, 2} :
         LET all == packages[i].dependencies \o packages[i].dev_dependencies IN
         /\ Len(all) = 1
         /\ LocalDeps(packages[i]) = {1}
         /\ resolve_dependency(packages[i], all[1], packages) = <<packages[3 - i]>>

\* C5: when two packages each declare exactly one local dependency, on each
\* other, validating either yields exactly one CyclicDependency finding, whose
\* message lists the directory names from the validated package to that package
\* repeated.
C5_MutualCycleReported ==
    \A i \in Validated :
        (MutualPair /\ ~Blacklisted(i)) =>
            /\ CountCode(findings[i], "CyclicDependency") = 1
            /\ HasFinding(findings[i], "CyclicDependency",
                          <<"cyclic dependency ">> \o packages[i].dir_name \o <<" -> ">>
                          \o packages[3 - i].dir_name \o <<" -> ">>
                          \o Quoted(packages[i].dir_name))

\* the package with every dependency replaced by its override, where it has one
WithEffective(pkg) ==
    [pkg EXCEPT !.dependencies = [k \in 1..Len(pkg.dependencies) |->
                                     effective(pkg.dependencies[k])]]

\* C6: a dependency that carries an override is resolved and classified by the
\* override alone: validating the package yields what it yields when the
\* override itself is declared in place of the dependency.
C6_OverrideDecidesEveryCheck ==
    \A i \in Validated :
        ~Blacklisted(i) =>
            findings[i] = validate(WithEffective(packages[i]), config, packages).findings

\* C7: a blacklisted package yields no finding whatever it declares, and stays in
\* the collection: a local dependency of another package onto it is not unknown,
\* and the cycle walk of another package goes through it.
C7_BlacklistedSkippedButResolvable ==
    /\ \A i \in Validated : Blacklisted(i) => findings[i] = <<>>
    /\ \A j \in Validated, i \in 1..Len(packages) :
         (~Blacklisted(j) /\ Blacklisted(i) /\ i # j) =>
            \A k \in 1..Len(packages[j].dependencies) :
               LET dep == packages[j].dependencies[k]
                   target == PathToStr(normalize_path(
                                 packages[j].dir_path \o <<Slash>> \o effective(dep).path))
               IN  (effective(dep).kind = "Local" /\ target = packages[i].dir_path) =>
                      /\ ~HasFinding(findings[j], "UnknownDependency", UnknownFor(dep))
                      /\ (\E e \in Range(packages[i].dependencies \o packages[i].dev_dependencies) :
                             /\ effective(e).kind = "Local"
                             /\ PathToStr(normalize_path(
                                    packages[j].dir_path \o <<Slash>> \o effective(e).path))
                                  = packages[j].dir_path)
                           => HasFinding(findings[j], "CyclicDependency",
                                  <<"cyclic dependency ">> \o packages[j].dir_name
                                  \o <<" -> ">> \o packages[i].dir_name \o <<" -> ">>
                                  \o Quoted(packages[j].dir_name))

\* C7 witness: a blacklisted package whose dependency breaks the policy and
\* closes a cycle has been validated, after a package that depends on it
C7_Witness ==
    /\ Len(findings) = 2
    /\ ~Blacklisted(1) /\ Blacklisted(2)
    /\ ~is_empty(config)
    /\ packages[1].dependencies = <<Local("bar", ToPkgBar)>>
    /\ packages[2].dependencies = <<Local("foo", Up \o <<"/", "app_", "foo">>)>>
    /\ findings[2] = <<>>
    /\ Codes(findings[1]) = <<"CyclicDependency">>
    /\ validate(packages[2], [config EXCEPT !.blacklist = <<>>], packages).findings # <<>>

\* C8: a dependency declared as Registry never causes an UnknownDependency or a
\* DependencyNotAllowed finding, under any policy and package collection.
C8_RegistryNeverUnknownNorDisallowed ==
    \A i \in Validated :
        \A dep \in Range(packages[i].dependencies \o packages[i].dev_dependencies) :
            dep.kind = "PubDev" =>
                /\ ~HasFinding(findings[i], "UnknownDependency", UnknownFor(dep))
                /\ ~HasFinding(findings[i], "DependencyNotAllowed", NotAllowedFor(dep))

\* C8 witness: a normal Registry dependency of a package that is checked against
\* a policy has been validated, its override a local path onto no package
C8_Witness ==
    /\ 1 \in Validated
    /\ ~Blacklisted(1) /\ ~is_empty(config)
    /\ Len(packages[1].dependencies) = 1
    /\ packages[1].dependencies[1].kind = "PubDev"
    /\ packages[1].dependencies[1].overridden = <<Local("bar", Up \o <<"/", "missing">>)>>
    /\ resolve_dependency(packages[1], packages[1].dependencies[1], packages) = <<>>

\* C9: the validate command fails exactly when a finding of level error exists;
\* findings of level none or warn do not count.
C9_OnlyErrorLevelFails ==
    result \in {"ok", "failed"} =>
        (result = "failed" <=>
            \E i \in Validated : \E k \in 1..Len(findings[i]) : findings[i][k].level = "error")

\* ---------------------------------------------------------------- the document, read directly

\* the entries of package_types that declare a package type: the key is a
\* non-empty string
DeclaredEntries(doc) ==
    {k \in 1..Len(doc.package_types) :
        doc.package_types[k].key.tag = "str" /\ doc.package_types[k].key.str # ""}

\* the names an includes node lists
IncludedNames(node) ==
    IF node.tag # "list" THEN {}
    ELSE {node.items[k].str : k \in {m \in 1..Len(node.items) :
                                        node.items[m].tag = "str" /\ node.items[m].str # ""}}

\* a dir_prefix with no prefix: missing, no string, the empty string, or a list
\* with no non-empty string
NoPrefix(node) ==
    /\ ~(node.tag = "str" /\ node.text # <<>>)
    /\ ~(node.tag = "list" /\ \E k \in 1..Len(node.items) :
            node.items[k].tag = "str" /\ node.items[k].text # <<>>)

PolicyRejectable(doc) ==
    \/ DeclaredEntries(doc) = {}
    \/ \E k \in DeclaredEntries(doc) : NoPrefix(doc.package_types[k].dir_prefix)
    \/ \E k \in DeclaredEntries(doc) :
          \E n \in IncludedNames(doc.package_types[k].includes) :
             \A m \in DeclaredEntries(doc) : doc.package_types[m].key.str # n

PatternsCompile(node) ==
    node.tag = "list" =>
        \A k \in 1..Len(node.items) :
            node.items[k].tag = "str" => ~SeqContains(node.items[k].text, "**")

ValidationsWellFormed(doc) ==
    \A k \in 1..Len(doc.validations) :
        /\ doc.validations[k].key.str \in
              {"validation:dev-dependency:git", "validation:dependency:unknown",
               "validation:dependency:unallowed", "validation:dependency:cyclic",
               "validation:public:dependency:non-git"}
        /\ doc.validations[k].value.str \in {"error", "warn", "none"}

\* C10: loading a policy is rejected with a configuration error when no package
\* type is declared, when a package type has no prefix, or when an includes
\* entry names an undeclared type; with valid patterns and validation entries it
\* succeeds in every other case, also when a type includes itself.
C10_PolicyLoadRejectsExactlyInvalid ==
    result # "running" =>
        /\ PolicyRejectable(yaml) => result # "loaded"
        /\ (PolicyRejectable(yaml) /\ ValidationsWellFormed(yaml)) => result = "ConfigValidation"
        /\ (/\ ~PolicyRejectable(yaml)
            /\ ValidationsWellFormed(yaml)
            /\ PatternsCompile(yaml.blacklist) /\ PatternsCompile(yaml.public_repositories))
           => /\ result = "loaded"
              /\ Len(config.package_types) = Cardinality(DeclaredEntries(yaml))

\* C10 witness: a document whose type app includes itself has been loaded, and
\* its second entry, ignored for its key, has no dir_prefix
C10_Witness ==
    /\ result = "loaded"
    /\ Len(yaml.package_types) = 2
    /\ yaml.package_types[1].includes = ListNode(<<StrNode("app")>>)
    /\ yaml.package_types[2].key = IntNode
    /\ yaml.package_types[2].dir_prefix = BadNode
    /\ config.package_types = <<PackageType("app", <<(<<"app_">>)>>, <<"app">>)>>

\* ---------------------------------------------------------------- cycles

AllDeps(i) == packages[i].dependencies \o packages[i].dev_dependencies

\* the packages at the directory that the effective path of `dep` names when it
\* is joined to the directory `dir`
ResolveFrom(dir, dep) ==
    IF effective(dep).kind # "Local" THEN {}
    ELSE LET target == PathToStr(normalize_path(dir \o <<Slash>> \o effective(dep).path))
         IN  {j \in 1..Len(packages) : packages[j].dir_path = target}

\* the edges the walk started for package p follows: every dependency path is
\* joined to the directory of p
WalkEdges(p) ==
    UNION {UNION {{i} \X ResolveFrom(packages[p].dir_path, d) : d \in Range(AllDeps(i))} :
              i \in 1..Len(packages)}

\* the edges of the dependency graph: every dependency path is joined to the
\* directory of the package that declares it
DeclaredEdges ==
    UNION {UNION {{i} \X ResolveFrom(packages[i].dir_path, d) : d \in Range(AllDeps(i))} :
              i \in 1..Len(packages)}

RECURSIVE ReachPackages(_, _)
ReachPackages(edges, from) ==
    LET next == from \cup {e[2] : e \in {f \in edges : f[1] \in from}}
    IN  IF next = from THEN from ELSE ReachPackages(edges, next)

OnCycle(edges, p) == \E e \in edges : e[1] = p /\ p \in ReachPackages(edges, {e[2]})

CycleFindings(fs) == {k \in 1..Len(fs) : fs[k].code = "CyclicDependency"}

\* the text of a cycle finding leaves from the directory name of pkg and comes
\* back to it
TraceThrough(f, pkg) ==
    /\ Len(f.error) >= 1 + Len(pkg.dir_name) + Len(Quoted(pkg.dir_name))
    /\ f.error[1] = "cyclic dependency "
    /\ StartsWith(Tail(f.error), pkg.dir_name)
    /\ SubSeq(f.error, Len(f.error) - Len(pkg.dir_name) - 1, Len(f.error)) = Quoted(pkg.dir_name)

\* C11: the check of package P reports a cycle only when the walk comes back to
\* P itself: every CyclicDependency finding of P leaves from P and ends in P,
\* and when the walk from P meets only cycles that do not go through P (a
\* package already on the path that is not P) P gets no such finding.
C11_OnlyCyclesThroughOrigin ==
    \A p \in Validated :
        /\ \A k \in CycleFindings(findings[p]) : TraceThrough(findings[p][k], packages[p])
        /\ ~OnCycle(WalkEdges(p), p) => CycleFindings(findings[p]) = {}

\* C11 witness: foo depends on bar, bar and baz depend on each other, nothing
\* leads back to foo, and foo has been validated without a finding
C11_Witness ==
    /\ 1 \in Validated
    /\ ~Blacklisted(1)
    /\ WalkEdges(1) = {<<1, 2>>, <<2, 3>>, <<3, 2>>}
    /\ findings[1] = <<>>

\* ---------------------------------------------------------------- findings per dependency

\* the number of findings of the kind `code` with the text `error`
CountFinding(fs, code, error) ==
    Cardinality({k \in 1..Len(fs) : fs[k].code = code /\ fs[k].error = error})

\* the positions of the normal dependencies of package i declared as Local
DeclaredLocal(i) ==
    {k \in 1..Len(packages[i].dependencies) : packages[i].dependencies[k].kind = "Local"}

\* C12: under a non-empty policy every normal dependency declared as Local that
\* resolves to no package of the collection yields exactly one
\* UnknownDependency finding and no DependencyNotAllowed finding; every
\* UnknownDependency or DependencyNotAllowed finding is the one of a normal
\* dependency, never of a dev dependency.
C12_UnresolvedLocalIsUnknown ==
    \A i \in Validated :
        (~Blacklisted(i) /\ ~is_empty(config)) =>
            /\ \A k \in DeclaredLocal(i) :
                 LET dep == packages[i].dependencies[k] IN
                 ResolveFrom(packages[i].dir_path, dep) = {} =>
                    /\ CountFinding(findings[i], "UnknownDependency", UnknownFor(dep)) =
                         Cardinality({m \in DeclaredLocal(i) :
                             /\ packages[i].dependencies[m].name = dep.name
                             /\ ResolveFrom(packages[i].dir_path, packages[i].dependencies[m]) = {}})
                    /\ ~HasFinding(findings[i], "DependencyNotAllowed", NotAllowedFor(dep))
            /\ \A m \in 1..Len(findings[i]) :
                 findings[i][m].code \in {"UnknownDependency", "DependencyNotAllowed"} =>
                    \E k \in DeclaredLocal(i) :
                       findings[i][m].error \in {UnknownFor(packages[i].dependencies[k]),
                                                 NotAllowedFor(packages[i].dependencies[k])}

\* C12 witness: under base_config the normal dependency of foo onto ../missing
\* has been reported as unknown, and nothing else
C12_Witness ==
    /\ 1 \in Validated
    /\ config.package_types = base_config
    /\ packages[1].dependencies = <<Local("bar", Up \o <<"/", "missing">>)>>
    /\ Codes(findings[1]) = <<"UnknownDependency">>

\* the dev half in the same runs: a dev dependency onto no package, validated
\* without a finding
DevDependencyUnresolvedSilently ==
    /\ 1 \in Validated
    /\ ~is_empty(config) /\ ~Blacklisted(1)
    /\ packages[1].dev_dependencies = <<Local("bar", Up \o <<"/", "missing">>)>>
    /\ findings[1] = <<>>

\* the package types of the policy that match the directory name of package i
MatchingTypes(i) ==
    {t \in 1..Len(config.package_types) :
        \E k \in 1..Len(config.package_types[t].prefixes) :
            StartsWith(packages[i].dir_name, config.package_types[t].prefixes[k])}

\* the union of the closures of the package types that match package i
AllowedPrefixes(i) ==
    UNION {Range(valid_include_prefixes(config.package_types[t], config, MaxCallDepth).prefixes) :
              t \in MatchingTypes(i)}

\* C13: the prefixes allowed for package P are the union of the closures of
\* every package type that matches P's directory name: a resolved normal local
\* dependency of P is reported as not allowed exactly when no prefix of that
\* union starts the target's directory name, and always when no type matches P.
C13_AllowedSetIsUnionOverMatchingTypes ==
    \A i \in Validated :
        (~Blacklisted(i) /\ ~is_empty(config)) =>
            \A k \in DeclaredLocal(i) :
                LET dep == packages[i].dependencies[k] IN
                \A j \in ResolveFrom(packages[i].dir_path, dep) :
                    /\ HasFinding(findings[i], "DependencyNotAllowed", NotAllowedFor(dep))
                         <=> ~\E prefix \in AllowedPrefixes(i) :
                                 StartsWith(packages[j].dir_name, prefix)
                    /\ MatchingTypes(i) = {} =>
                         HasFinding(findings[i], "DependencyNotAllowed", NotAllowedFor(dep))

\* C13 witness: app_foo matches the types app and main, its dependency onto
\* pkg_bar is allowed through main alone, and it has been validated without a
\* finding
C13_Witness ==
    /\ 1 \in Validated
    /\ config.package_types = OverlapPolicy
    /\ MatchingTypes(1) = {1, 2}
    /\ packages[1].dependencies = <<Local("bar", ToPkgBar)>>
    /\ ResolveFrom(packages[1].dir_path, packages[1].dependencies[1]) = {2}
    /\ findings[1] = <<>>

\* a package that no type matches, its resolved dependency reported
UnmatchedPackageReported ==
    /\ 1 \in Validated
    /\ ~is_empty(config) /\ MatchingTypes(1) = {}
    /\ packages[1].dependencies # <<>>
    /\ ResolveFrom(packages[1].dir_path, packages[1].dependencies[1]) = {2}
    /\ Codes(findings[1]) = <<"DependencyNotAllowed">>

\* ---------------------------------------------------------------- levels

\* the level the validations table of the policy gives a kind of finding
ConfiguredLevel(code) ==
    LET entries == {e \in Range(config.validations) : e[1] = code}
    IN  IF entries = {} THEN "error" ELSE (CHOOSE e \in entries : TRUE)[2]

\* C14: every finding returned by validate for package P carries P's name and
\* the level the validations table gives its kind, error for a kind without
\* entry.
C14_FindingCarriesNameAndConfiguredLevel ==
    \A i \in Validated : \A k \in 1..Len(findings[i]) :
        /\ findings[i][k].package_name = packages[i].name
        /\ findings[i][k].code \in ValidationTypes
        /\ Cardinality({e \in Range(config.validations) : e[1] = findings[i][k].code}) <= 1
        /\ findings[i][k].level = ConfiguredLevel(findings[i][k].code)

\* C14 witness: a table with an entry for UnknownDependency and none for
\* NonGitDependencyInPublicPackage; the public package foo has been validated
\* and has one finding of each kind, at the level none and at the default
C14_Witness ==
    /\ 1 \in Validated
    /\ config.validations = <<(<<"UnknownDependency", "none">>), (<<"DependencyNotAllowed", "warn">>)>>
    /\ Len(findings[1]) = 2
    /\ findings[1][1].code = "UnknownDependency" /\ findings[1][1].level = "none"
    /\ findings[1][2].code = "NonGitDependencyInPublicPackage" /\ findings[1][2].level = "error"
    /\ findings[1][1].package_name = "foo"

\* ---------------------------------------------------------------- git dependencies

GitDevFor(dep) == <<"git dependency in dev_dependencies ", dep.name>>

\* a git dependency whose repository matches a pattern of public_repositories
PublicGit(dep) ==
    /\ dep.kind = "Git"
    /\ \E pattern \in Range(config.public_repositories) : IsMatch(pattern, dep.git)

\* every normal dependency of package i is declared as a git dependency
OnlyNormalGitDeps(i) ==
    /\ packages[i].dev_dependencies = <<>>
    /\ packages[i].dependencies # <<>>
    /\ \A d \in Range(packages[i].dependencies) : d.kind = "Git"

\* a dev dependency is reported exactly when it is a git dependency onto a
\* public repository, and no other dependency ever is
GitDevFindingsExact(i) ==
    /\ \A d \in Range(packages[i].dev_dependencies) :
          HasFinding(findings[i], "GitDevDependency", GitDevFor(d)) <=> PublicGit(d)
    /\ \A k \in 1..Len(findings[i]) :
          findings[i][k].code = "GitDevDependency" =>
             \E d \in Range(packages[i].dev_dependencies) :
                PublicGit(d) /\ findings[i][k].error = GitDevFor(d)

DevGitInternSilent ==
    /\ 1 \in Validated
    /\ ~Blacklisted(1)
    /\ packages[1].dev_dependencies = <<Git("bar", InternUrl, <<"sub">>)>>
    /\ findings[1] = <<>>

\* ---------------------------------------------------------------- public packages

NonGitFor(dep) == <<"non-git dependency '", dep.name, "' in public package">>

\* C16: a normal dependency yields a NonGitDependencyInPublicPackage finding
\* exactly when the declaring package is flagged public and the dependency is
\* declared as Local, whatever the policy and whether or not it resolves; a dev
\* dependency never yields it.
C16_PublicPackageLocalDependency ==
    \A i \in Validated :
        ~Blacklisted(i) =>
            /\ \A d \in Range(packages[i].dependencies) :
                 HasFinding(findings[i], "NonGitDependencyInPublicPackage", NonGitFor(d))
                    <=> (packages[i].is_public /\ d.kind = "Local")
            /\ CountCode(findings[i], "NonGitDependencyInPublicPackage") =
                 IF packages[i].is_public THEN Cardinality(DeclaredLocal(i)) ELSE 0

\* C16 witness: the public package foo, without policy, has been validated and
\* its normal dependency onto no package has been reported
C16_Witness ==
    /\ 1 \in Validated
    /\ is_empty(config)
    /\ packages[1].is_public
    /\ packages[1].dependencies = <<Local("bar", Up \o <<"/", "missing">>)>>
    /\ Codes(findings[1]) = <<"NonGitDependencyInPublicPackage">>

\* the public package with a local dev dependency, validated without a finding
PublicPackageDevLocalSilent ==
    /\ 1 \in Validated
    /\ ~Blacklisted(1)
    /\ packages[1].is_public
    /\ packages[1].dev_dependencies = <<Local("bar", ToPkgBar)>>
    /\ findings[1] = <<>>

\* ---------------------------------------------------------------- loading a manifest

\* the path names no directory in front of the file name: there is no piece in
\* front of the last one, or that piece is empty, "." or ".."
NoDirectoryName(path) ==
    LET pieces == SplitPath(path, 1, <<>>)
    IN  \/ Len(pieces) < 2
        \/ pieces[Len(pieces) - 1] \in {<<>>, <<Dot>>, <<Dot, Dot>>}

\* the package that load returned holds the defaults for the fields of the
\* document that are missing or malformed
DefaultsForMalformed(pkg, doc) ==
    /\ pkg.name = (IF doc.name.tag = "str" THEN doc.name.str ELSE "")
    /\ doc.dependencies.tag # "hash" => pkg.dependencies = <<>>
    /\ doc.dev_dependencies.tag # "hash" => pkg.dev_dependencies = <<>>
    /\ Len(pkg.dependencies) <= Len(doc.dependencies.entries)
    /\ Len(pkg.dev_dependencies) <= Len(doc.dev_dependencies.entries)
    /\ \A d \in Range(pkg.dependencies) : d.name # ""
    /\ pkg.is_public <=> doc.is_public = BoolNode(TRUE)

\* C17 as stated: loading a manifest fails only when the directory that holds
\* the manifest cannot be determined.
C17_LoadFailsOnlyWithoutDirectory ==
    result \notin {"running", "loaded"} => NoDirectoryName(manifest.path)

\* C17 amended: loading a manifest fails exactly when the file does not exist,
\* cannot be read, is no YAML or holds no document, or when the directory that
\* holds it cannot be determined; every missing or malformed field of a
\* document yields a package with the defaults (empty name, empty dependency
\* lists, is_public false).
C17_LoadFailsOnFileOrDirectory ==
    result # "running" =>
        /\ result # "loaded" <=>
              (manifest.file.state # "document" \/ NoDirectoryName(manifest.path))
        /\ (manifest.file.state = "document" /\ NoDirectoryName(manifest.path))
              => result = "ConfigValidation"
        /\ result = "loaded" =>
              /\ Len(packages) = 1
              /\ packages[1].path = manifest.path
              /\ DefaultsForMalformed(packages[1], manifest.file.doc[1])

\* C17 witness: a document whose name is a number, whose dependencies are a
\* scalar, whose only dev dependency has no value and whose is_public is a
\* string has been loaded from /tmp/app_foo/pubspec.yaml with the defaults
C17_Witness ==
    /\ result = "loaded"
    /\ manifest.path = Manifest(AppFoo)
    /\ manifest.file.doc[1].name = IntNode
    /\ manifest.file.doc[1].dependencies = ScalarSection
    /\ manifest.file.doc[1].dev_dependencies = HashNode(<<[key |-> StrNode("bar"), value |-> ValNull]>>)
    /\ manifest.file.doc[1].is_public = StrNode("true")
    /\ packages = <<Pubspec("", Manifest(AppFoo), <<>>, <<>>, FALSE)>>

\* ---------------------------------------------------------------- termination of the walk

PackageDirs == {packages[i].dir_path : i \in 1..Len(packages)}

\* the seen path of every loop in progress holds package directories, none
\* twice, starts at the validated package and is one directory longer than the
\* one of the loop that called it
SeenPathsGrow ==
    \A n \in 1..Len(walk.stack) :
        LET seen == walk.stack[n].seen IN
        /\ Len(seen) = n
        /\ seen[1] = packages[idx].dir_path
        /\ Range(seen) \subseteq PackageDirs
        /\ Cardinality(Range(seen)) = Len(seen)
        /\ n > 1 => SubSeq(seen, 1, n - 1) = walk.stack[n - 1].seen

\* the findings the walk has collected when it is over are those of the
\* flat_map of validate
WalkAgreesWithValidate ==
    result = "walked" =>
        walk.out = AllDependencyValidations(packages[idx], config, packages, AllDeps(idx), 1)

\* the positions of the loops in progress, from the lowest one up
Positions(stack) == [n \in 1..Len(stack) |-> stack[n].k]

\* a is in front of b in the order of the walk: b goes on where a ends, or is
\* further on in the first loop where they differ
WalkBefore(a, b) ==
    \/ Len(a) < Len(b) /\ SubSeq(b, 1, Len(a)) = a
    \/ \E n \in 1..Len(a) :
          /\ n <= Len(b)
          /\ SubSeq(a, 1, n - 1) = SubSeq(b, 1, n - 1)
          /\ a[n] < b[n]

\* no more loops in progress than package directories, and no loop beyond the
\* end of its dependencies
WalkBounded ==
    /\ Len(walk.stack) <= Cardinality(PackageDirs)
    /\ \A n \in 1..Len(walk.stack) :
          /\ walk.stack[n].k \in 1..(Len(walk.stack[n].deps) + 1)
          /\ n < Len(walk.stack) => walk.stack[n].k <= Len(walk.stack[n].deps)

\* a walk that is not over has a step to take
WalkNotStuck ==
    (packages # <<>> /\ result = "running" /\ walk.stack # <<>>
        /\ TopFrame.k <= Len(TopFrame.deps))
    => TopCall.kind \in {"none", "report", "descend"}

\* every step of the walk is its end, or moves the loops in progress on in the
\* order of the walk
WalkAdvances ==
    \/ packages = <<>>
    \/ result' = "walked" /\ walk'.stack = <<>>
    \/ result' = "running" /\ WalkBefore(Positions(walk.stack), Positions(walk'.stack))

\* C18: the cycle walk started from any package of any dependency graph ends:
\* every call in progress has a seen path of distinct package directories,
\* one longer than its caller's, so the calls never nest deeper than there are
\* package directories; every step moves the loops in progress on in an order
\* that is bounded by the numbers of dependencies, and a walk that is not over
\* always has a step to take.
C18_WalkTerminates ==
    /\ [](SeenPathsGrow /\ WalkBounded /\ WalkNotStuck)
    /\ [][WalkAdvances]_vars

\* C18 witness: the walk from foo has ended in a graph where bar and baz depend
\* on each other and baz leads back to foo, with the cycle through foo found
C18_Witness ==
    /\ result = "walked"
    /\ idx = 1
    /\ {<<1, 2>>, <<2, 3>>, <<3, 2>>, <<3, 1>>} \subseteq DeclaredEdges
    /\ Len(walk.out) >= 1

\* the deepest nest of calls: as many loops in progress as package directories
DeepestNest ==
    /\ Len(walk.stack) = Cardinality(PackageDirs)
    /\ TopFrame.k <= Len(TopFrame.deps)
    /\ TopCall.kind = "none" /\ TopCall.rev_dep # <<>>

\* ---------------------------------------------------------------- dev dependencies in cycles

\* package q is the target of a dependency of the sequence deps that package p
\* declares
DependsThrough(p, deps, q) ==
    \E d \in Range(deps) : q \in ResolveFrom(packages[p].dir_path, d)

\* every package directory of the collection lies directly under /tmp
AllSiblings == \A i \in 1..Len(packages) : Len(packages[i].dir_path) = Len(AppFoo)

\* C19: the cycle check starts from the normal and the dev dependencies of P and
\* follows the normal and the dev dependencies of every package on the way:
\* when P depends on Q in dependencies and Q depends on P in dev_dependencies
\* only, the validation of P yields a CyclicDependency finding.
C19_DevBackEdgeReported ==
    \A p \in Validated : \A q \in 1..Len(packages) :
        (/\ ~Blacklisted(p) /\ p # q
         /\ DependsThrough(p, packages[p].dependencies, q)
         /\ DependsThrough(q, packages[q].dev_dependencies, p)
         /\ ~DependsThrough(q, packages[q].dependencies, p))
        => CycleFindings(findings[p]) # {}

\* the same for packages that are siblings of one directory
DevBackEdgeReportedAmongSiblings == AllSiblings => C19_DevBackEdgeReported

\* ---------------------------------------------------------------- completeness of the cycle check

\* the positions of the dependencies of package p (normal, then dev) whose
\* target is p or leads back to p along dependencies that resolve from the
\* directory of the package declaring them
DepsOnCycle(p) ==
    {k \in 1..Len(AllDeps(p)) :
        \E t \in ResolveFrom(packages[p].dir_path, AllDeps(p)[k]) :
            p \in ReachPackages(DeclaredEdges, {t})}

\* C20: for a package P that is not blacklisted, validate emits a
\* CyclicDependency finding for a declared dependency d of P (normal or dev)
\* exactly when a path of resolvable effective local dependencies leads from
\* the target of d back to P: P has as many CyclicDependency findings as it has
\* dependencies on such a path.
C20_CycleDetectionComplete ==
    \A p \in Validated :
        ~Blacklisted(p) =>
            Cardinality(CycleFindings(findings[p])) = Cardinality(DepsOnCycle(p))

\* the same for packages that are siblings of one directory
CycleDetectionCompleteAmongSiblings == AllSiblings => C20_CycleDetectionComplete

\* a cycle through P that the check misses
MissedCycle ==
    \E p \in Validated :
        ~Blacklisted(p) /\ Cardinality(CycleFindings(findings[p])) < Cardinality(DepsOnCycle(p))

\* ---------------------------------------------------------------- cycle traces

\* the pieces of `text` between the occurrences of the letter `sep`
RECURSIVE SplitOn(_, _, _, _)
SplitOn(text, sep, i, cur) ==
    IF i > Len(text) THEN <<cur>>
    ELSE IF text[i] = sep THEN <<cur>> \o SplitOn(text, sep, i + 1, <<>>)
    ELSE SplitOn(text, sep, i + 1, Append(cur, text[i]))

\* the labels of a cycle finding: what follows "cyclic dependency ", cut at " -> "
TraceLabels(f) == SplitOn(Tail(f.error), " -> ", 1, <<>>)

\* a dependency of a package in the directory named `from` resolves, from that
\* package's directory, to a package in the directory named `to`
Connected(from, to) ==
    \E e \in DeclaredEdges : packages[e[1]].dir_name = from /\ packages[e[2]].dir_name = to

\* C21: every emitted cycle trace is a real cycle: the message is "cyclic
\* dependency" followed by directory names joined with " -> ", the first is the
\* directory of P, the last is the directory name of P in single quotes, no
\* directory occurs twice before the closing label, and each label is
\* connected to the next one by a dependency of the former package that
\* resolves to the latter.
C21_TraceIsRealCycle ==
    \A p \in Validated : \A k \in CycleFindings(findings[p]) :
        LET f == findings[p][k]
            labels == TraceLabels(f)
            n == Len(labels)
            stop(i) == IF i = n - 1 THEN packages[p].dir_name ELSE labels[i + 1]
        IN  /\ f.error[1] = "cyclic dependency "
            /\ n >= 2
            /\ labels[1] = packages[p].dir_name
            /\ labels[n] = Quoted(packages[p].dir_name)
            /\ \A i, j \in 1..(n - 1) : i # j => labels[i] # labels[j]
            /\ \A i \in 1..(n - 1) : Connected(labels[i], stop(i))

\* the form of the trace alone, without the connection of its labels
TraceWellFormed ==
    \A p \in Validated : \A k \in CycleFindings(findings[p]) :
        LET f == findings[p][k]
            labels == TraceLabels(f)
            n == Len(labels)
        IN  /\ f.error[1] = "cyclic dependency "
            /\ n >= 2
            /\ labels[1] = packages[p].dir_name
            /\ labels[n] = Quoted(packages[p].dir_name)
            /\ \A i, j \in 1..(n - 1) : i # j => labels[i] # labels[j]

\* ---------------------------------------------------------------- order of the findings

\* the position of the dependency named `name` in deps (0 when there is none)
IndexByName(deps, name) ==
    LET hits == {k \in 1..Len(deps) : deps[k].name = name}
    IN  IF hits = {} THEN 0 ELSE CHOOSE k \in hits : \A j \in hits : k <= j

\* the position, among the normal and then the dev dependencies of package p,
\* of the dependency that resolves to the directory named `label`
IndexByTarget(p, label) ==
    LET hits == {k \in 1..Len(AllDeps(p)) :
                    \E t \in ResolveFrom(packages[p].dir_path, AllDeps(p)[k]) :
                        packages[t].dir_name = label}
    IN  IF hits = {} THEN 0 ELSE CHOOSE k \in hits : \A j \in hits : k <= j

\* where a finding of package p belongs: the part of the result, the
\* dependency within the part, the check within the dependency
FindingPlace(p, f) ==
    CASE f.code \in {"DependencyNotAllowed", "UnknownDependency"} ->
             <<1, IndexByName(packages[p].dependencies, f.error[2]), 1>>
      [] f.code = "NonGitDependencyInPublicPackage" ->
             <<1, IndexByName(packages[p].dependencies, f.error[2]), 2>>
      [] f.code = "CyclicDependency" ->
             <<2, IndexByTarget(p, TraceLabels(f)[2]), 1>>
      [] f.code = "GitDevDependency" ->
             <<3, IndexByName(packages[p].dev_dependencies, f.error[2]), 1>>

PlaceBefore(a, b) ==
    \/ a[1] < b[1]
    \/ a[1] = b[1] /\ a[2] < b[2]
    \/ a[1] = b[1] /\ a[2] = b[2] /\ a[3] < b[3]

\* C22: validate returns its findings in a fixed order: first, for each normal
\* dependency in declaration order, its allowed-dependency finding and then its
\* public-package finding; then the CyclicDependency findings of the normal and
\* after them of the dev dependencies; last the findings of the dev
\* dependencies on public repositories.  Every finding belongs to a dependency
\* and stands strictly before the next one in that order.
C22_FindingsInFixedOrder ==
    \A p \in Validated :
        LET fs == findings[p] IN
        /\ \A k \in 1..Len(fs) : FindingPlace(p, fs[k])[2] # 0
        /\ \A k \in 1..(Len(fs) - 1) :
               PlaceBefore(FindingPlace(p, fs[k]), FindingPlace(p, fs[k + 1]))

\* C22 witness: the public package foo depends on baz, which is not allowed and
\* depends back, then on a package that is not there; its dev dependencies are
\* bar, which depends back, and a public repository
C22_Witness ==
    /\ 1 \in Validated
    /\ Codes(findings[1]) = <<"DependencyNotAllowed", "NonGitDependencyInPublicPackage",
                              "UnknownDependency", "NonGitDependencyInPublicPackage",
                              "CyclicDependency", "CyclicDependency", "GitDevDependency">>

\* the finding of a dependency that is not allowed, directly followed by the
\* cycle finding of the same dependency
DisallowedAndCyclic ==
    /\ 1 \in Validated
    /\ \E k \in 1..(Len(findings[1]) - 1) :
         /\ findings[1][k].code = "DependencyNotAllowed"
         /\ findings[1][k].error = <<"dependency to '", "baz", "' is not allowed">>
         /\ findings[1][k + 1].code = "CyclicDependency"
         /\ TraceLabels(findings[1][k + 1])[2] = <<"app_", "bar">>

\* ---------------------------------------------------------------- detection and levels

\* the findings without their level
StripLevel(fs) ==
    [k \in 1..Len(fs) |->
        [package_name |-> fs[k].package_name, code |-> fs[k].code,
         error |-> fs[k].error, description |-> fs[k].description]]

\* the package validated last, if any
JustValidated == {Len(findings)} \ {0}

\* the configuration with another validations table
WithValidations(cfg, table) == [cfg EXCEPT !.validations = table]

\* C23: detection does not depend on the configured levels: under a
\* configuration that differs in the validations table only, validate returns
\* for every package the same sequence of findings (names, kinds, messages,
\* descriptions), each with the level the other table gives its kind; findings
\* of level none are produced as well.
C23_DetectionIndependentOfLevels ==
    \A p \in JustValidated : \A table \in ValidationTables :
        LET other == WithValidations(config, table)
            vals == validate(packages[p], other, packages)
        IN  /\ ~vals.overflow
            /\ StripLevel(vals.findings) = StripLevel(findings[p])
            /\ \A k \in 1..Len(vals.findings) :
                 vals.findings[k].level = validation_level(other, vals.findings[k].code)

\* C23 witness: a finding of level none has been produced, and the same package
\* has the same finding at level error under the empty table
C23_Witness ==
    \E p \in Validated : \E k \in 1..Len(findings[p]) :
        /\ findings[p][k].level = "none"
        /\ findings[p][k].code = "GitDevDependency"
        /\ validate(packages[p], WithValidations(config, <<>>), packages).findings[k].level = "error"

\* ---------------------------------------------------------------- classification of a dependency

\* the dependency a value of the dependencies section stands for, by the
\* precedence Local, Git, PubDev: a non-empty path; otherwise a git reference
\* (url and path); otherwise a string or a number, the number written out;
\* otherwise none
Classified(key, value) ==
    IF value.tag = "hash" /\ value.path # <<>> THEN <<Local(key, value.path)>>
    ELSE IF value.tag = "hash" /\ value.git_url # <<>> /\ value.git_path # <<>>
         THEN <<Git(key, value.git_url, value.git_path)>>
    ELSE IF value.tag = "str" THEN <<PubDev(key, value.text)>>
    ELSE IF value.tag = "real" THEN <<PubDev(key, FormatReal(value))>>
    ELSE IF value.tag = "int" THEN <<PubDev(key, <<value.whole>>)>>
    ELSE <<>>

\* the dependencies without their overrides
WithoutOverride(deps) == [k \in 1..Len(deps) |-> [deps[k] EXCEPT !.overridden = <<>>]]

\* a manifest whose dependencies section is the one entry bar has been loaded
LoadedOneDependency ==
    /\ result = "loaded"
    /\ manifest.file.doc[1].dependencies.tag = "hash"
    /\ Len(manifest.file.doc[1].dependencies.entries) = 1
    /\ manifest.file.doc[1].dependencies.entries[1].key = StrNode("bar")

\* C24: a dependency spec of a manifest is classified with the precedence
\* Local, Git, PubDev: a non-empty path yields Local whatever else is present;
\* otherwise a git reference yields Git; otherwise a string or a numeric value
\* yields PubDev with the version as a string; a spec of none of these shapes
\* yields no dependency.
C24_ClassifiedByPrecedence ==
    LoadedOneDependency =>
        WithoutOverride(packages[1].dependencies)
            = Classified("bar", manifest.file.doc[1].dependencies.entries[1].value)

\* the same for every value but an integer
ClassifiedUnlessInteger ==
    (LoadedOneDependency /\ manifest.file.doc[1].dependencies.entries[1].value # ValInt)
        => C24_ClassifiedByPrecedence

\* a value with a path and a git reference has been loaded as Local
PathWinsOverGit ==
    /\ LoadedOneDependency
    /\ manifest.file.doc[1].dependencies.entries[1].value = ValHash(ToPkgBar, GitHubUrl, <<"sub">>)
    /\ WithoutOverride(packages[1].dependencies) = <<Local("bar", ToPkgBar)>>

\* ---------------------------------------------------------------- with_override and effective

\* the variant, the name and the fields of the variant
OwnFields(d) ==
    [kind |-> d.kind, name |-> d.name, path |-> d.path, git |-> d.git, version |-> d.version]

\* C25: with_override(d, o) has the variant, the name and the variant fields of
\* d and carries o as its only override, whatever override d had before;
\* effective(with_override(d, o)) is o; effective(d) is d when d has no
\* override; effective follows one override and no further: it returns the
\* override as it is, with the override that one may carry itself.
C25_OverrideAndEffective ==
    /\ overriding.out # <<>> =>
         /\ OwnFields(overriding.out[1]) = OwnFields(overriding.d)
         /\ overriding.out[1].overridden = <<overriding.o>>
    /\ overriding.of_out # <<>> =>
         /\ overriding.of_out[1] = overriding.o
         /\ overriding.d.overridden = <<>> => overriding.of_d[1] = overriding.d
         /\ overriding.d.overridden # <<>> => overriding.of_d[1] = overriding.d.overridden[1]

\* C25 witness: a dependency that had an override got another one that carries
\* an override itself; the first override is gone and effective stops at the new
\* one
C25_Witness ==
    /\ overriding.of_out # <<>>
    /\ overriding.d.overridden # <<>>
    /\ overriding.o.overridden # <<>>
    /\ overriding.d.overridden[1] # overriding.o
    /\ overriding.out[1].overridden = <<overriding.o>>
    /\ overriding.of_out[1] = overriding.o
    /\ overriding.of_out[1] # overriding.o.overridden[1]

\* ---------------------------------------------------------------- resolution of a local dependency

\* lexical normalization of the pieces of a path from the i-th on, `kept` being
\* the segments so far: an empty piece and "." are dropped, ".." removes the
\* segment before it if there is one, any other piece is kept
RECURSIVE Lexical(_, _, _)
Lexical(pieces, i, kept) ==
    IF i > Len(pieces) THEN kept
    ELSE Lexical(pieces, i + 1,
            IF pieces[i] \in {<<>>, <<Dot>>} THEN kept
            ELSE IF pieces[i] = <<Dot, Dot>>
                 THEN SubSeq(kept, 1, Len(kept) - 1)
                 ELSE Append(kept, pieces[i]))

\* the text of the lexically normalized path
LexicalStr(path) ==
    (IF path # <<>> /\ path[1] = Slash THEN <<Slash>> ELSE <<>>)
        \o JoinStr(Lexical(SplitOn(path, Slash, 1, <<>>), 1, <<>>), <<Slash>>)

\* the first package of the collection at the directory path, if any
FirstAt(dir_path) ==
    LET hits == {i \in 1..Len(packages) : packages[i].dir_path = dir_path}
    IN  IF hits = {} THEN <<>> ELSE <<packages[CHOOSE i \in hits : \A j \in hits : i <= j]>>

ParentOfRoot ==
    /\ resolving.self = 4
    /\ resolving.dep = Local("dep", Up \o <<Slash>> \o ToPkgBar)
    /\ resolving.out = <<packages[4]>>

\* a local path that is overridden by a git dependency resolves to nothing
OverriddenLocalUnresolved ==
    /\ resolving.done
    /\ resolving.dep.kind = "Local"
    /\ resolving.dep.overridden # <<>>
    /\ resolving.out = <<>>

\* ---------------------------------------------------------------- description of a finding

AllowedOnly == "packages with the following directory prefixes are allowed only: "

\* the entries of the list in the description of a DependencyNotAllowed finding
ListedPrefixes(f) ==
    LET list == Tail(f.description[1])
    IN  IF list = <<>> THEN <<>> ELSE SplitOn(list, ", ", 1, <<>>)

IsQuoted(item) == Len(item) >= 2 /\ item[1] = "'" /\ item[Len(item)] = "'"

Unquoted(item) == SubSeq(item, 2, Len(item) - 1)

\* C27: the description of every DependencyNotAllowed finding lists the
\* permitted prefixes of the declaring package, each in single quotes, in
\* ascending order and without duplicates, and the prefixes listed are exactly
\* the allowed prefixes the dependency was checked against.
C27_DescriptionListsAllowedPrefixes ==
    \A p \in Validated : \A k \in 1..Len(findings[p]) :
        findings[p][k].code = "DependencyNotAllowed" =>
            LET f == findings[p][k]
                items == ListedPrefixes(f)
            IN  /\ Len(f.description) = 1
                /\ f.description[1][1] = AllowedOnly
                /\ \A i \in 1..Len(items) : IsQuoted(items[i])
                /\ \A i \in 1..(Len(items) - 1) : StrLess(items[i], items[i + 1])
                /\ {Unquoted(items[i]) : i \in 1..Len(items)} = AllowedPrefixes(p)

\* C27 witness: app_foo matches two types, each with the closure shared_, pkg_;
\* its dependency on app_bar is not allowed and the description lists 'pkg_',
\* 'shared_'
C27_Witness ==
    /\ 1 \in Validated
    /\ config.package_types = SharedIncludesPolicy
    /\ ValidPrefixes(packages[1], config, 1).prefixes
         = <<(<<"shared_">>), (<<"pkg_">>), (<<"shared_">>), (<<"pkg_">>)>>
    /\ \E k \in 1..Len(findings[1]) :
         /\ findings[1][k].code = "DependencyNotAllowed"
         /\ ListedPrefixes(findings[1][k]) = <<Quoted(<<"pkg_">>), Quoted(<<"shared_">>)>>

\* a package whose type includes nothing: the list is empty
EmptyListDescribed ==
    \E p \in Validated : \E k \in 1..Len(findings[p]) :
        /\ findings[p][k].code = "DependencyNotAllowed"
        /\ findings[p][k].description = <<(<<AllowedOnly>>)>>

\* ---------------------------------------------------------------- declaration order of the types

\* the closure of the queried type when the types of the policy are declared in
\* the order f
ClosureInOrder(f) ==
    LET cfg == [config EXCEPT !.package_types = Permuted(config.package_types, f)]
    IN  valid_include_prefixes(TypeOf(cfg, query), cfg, MaxCallDepth)

\* C28: the closure of a package type depends on the policy as a set of types
\* only: declaring the types in another order never changes the resulting set
\* of prefixes, also when two included types declare the same prefix string.
C28_ClosureIndependentOfOrder ==
    query # None =>
        \A f \in Perms(Len(config.package_types)) :
            /\ ClosureInOrder(f).overflow = closure.overflow
            /\ ~closure.overflow => Range(ClosureInOrder(f).prefixes) = Range(closure.prefixes)

\* the same for policies in which no prefix string is declared by two types
ClosureIndependentOfOrderDistinct == DistinctPrefixes(config) => C28_ClosureIndependentOfOrder

\* main includes app and shared, which share the prefix app_: with app declared
\* first the closure is app_ alone, and with shared declared first it has pkg_
\* as well
SharedPrefixOrderMatters ==
    /\ query = "main"
    /\ config.package_types = SharedPrefixPolicy
    /\ Acyclic(config)
    /\ closure = Returned(<<(<<"app_">>)>>)
    /\ \E f \in Perms(4) :
         Range(ClosureInOrder(f).prefixes) = {<<"app_">>, <<"pkg_">>}

\* ---------------------------------------------------------------- declared and effective variant

\* the normal dependencies of package i that carry an override
Overridden(i) ==
    {k \in 1..Len(packages[i].dependencies) : packages[i].dependencies[k].overridden # <<>>}

\* C29: in the allowed-dependency and the public-package check the declared
\* variant decides whether a dependency is skipped or flagged, and the
\* effective variant is the one resolved: a dependency declared as PubDev or
\* Git yields no UnknownDependency, DependencyNotAllowed or
\* NonGitDependencyInPublicPackage finding whatever local path overrides it; a
\* dependency declared as Local and overridden by a Git or PubDev dependency
\* yields exactly one UnknownDependency finding under a non-empty policy, and
\* the public-package finding exactly when the package is public.
C29_DeclaredVariantDecides ==
    \A i \in Validated :
        ~Blacklisted(i) =>
            \A k \in Overridden(i) :
                LET dep == packages[i].dependencies[k]
                    fs == findings[i]
                IN  /\ dep.kind \in {"PubDev", "Git"} =>
                         /\ CountFinding(fs, "UnknownDependency", UnknownFor(dep)) = 0
                         /\ CountFinding(fs, "DependencyNotAllowed", NotAllowedFor(dep)) = 0
                         /\ CountFinding(fs, "NonGitDependencyInPublicPackage", NonGitFor(dep)) = 0
                    /\ (dep.kind = "Local" /\ effective(dep).kind \in {"PubDev", "Git"}) =>
                         /\ CountFinding(fs, "UnknownDependency", UnknownFor(dep))
                              = (IF is_empty(config) THEN 0 ELSE 1)
                         /\ CountFinding(fs, "DependencyNotAllowed", NotAllowedFor(dep)) = 0
                         /\ CountFinding(fs, "NonGitDependencyInPublicPackage", NonGitFor(dep))
                              = (IF packages[i].is_public THEN 1 ELSE 0)

\* C29 witness: under a non-empty policy the dependency declared with the path
\* ../pkg_bar, where a package is, and overridden by a git dependency has been
\* reported as unknown
C29_Witness ==
    /\ 1 \in Validated
    /\ ~is_empty(config)
    /\ packages[1].dependencies
         = <<with_override(Local("bar", ToPkgBar), Git("bar", InternUrl, <<"sub">>))>>
    /\ Codes(findings[1]) = <<"UnknownDependency">>

\* under a non-empty policy the public package declares a git dependency that
\* is overridden by a path onto no package, and has no finding
OverriddenGitNotChecked ==
    /\ 1 \in Validated
    /\ ~Blacklisted(1)
    /\ ~is_empty(config)
    /\ packages[1].is_public
    /\ packages[1].dependencies
         = <<with_override(Git("bar", InternUrl, <<"sub">>), Local("bar", Up \o <<"/", "missing">>))>>
    /\ findings[1] = <<>>

====
